---- MODULE Spec2Model ----
(***************************************************************************)
(* Darvas box scanner (scanner/darvas_scanner.py).                         *)
(*                                                                         *)
(*   SpecBox    detect_box, the weekly box state machine, stepped one loop *)
(*              iteration at a time over a stream of weekly bars.          *)
(*   Spec       merge_into_watchlist, applied run after run to the         *)
(*              persisted watchlist, with the calendar advancing between   *)
(*              runs.                                                      *)
(*                                                                         *)
(* Prices are integers.  A weekly bar is <<High, Low>>.  The loop of       *)
(* detect_box reads rows i-1 and i only, so the model keeps those two bars *)
(* and draws the next row when the loop reaches it.  The confirmation date *)
(* of a box is the position of the confirming bar in the sequence (rows    *)
(* are in date order, so position and date determine each other).          *)
(***************************************************************************)
EXTENDS Integers, Sequences, FiniteSets, TLC

\* Python None / pandas NaN of a numeric cell
None == -1

Max(a, b) == IF a >= b THEN a ELSE b
Min(a, b) == IF a <= b THEN a ELSE b

(***************************************************************************)
(* Bounds of the model                                                     *)
(***************************************************************************)
\* longest weekly sequence handed to detect_box
MaxLen == 8
\* largest value of cfg["ceil_bars"] and cfg["floor_bars"]
MaxBars == 3

\* number of merge_into_watchlist runs in one behaviour
MaxRuns == 1
\* last calendar day the clock reaches (day 0 is the first)
MaxDay == 2
\* number of consecutive runs of run_scan in one behaviour
MaxScans == 4

\* the weekly bars the rows are drawn from, as << High, Low >> with
\* High >= Low: the two bars of the scenario, a bar with a lower Low, and a
\* bar with High = Low that lies below the Low of another
Bars == { << 10, 5 >>, << 10, 4 >>, << 9, 4 >>, << 4, 4 >> }

\* the scenario of the specification: 8 weekly bars, ceil_bars = floor_bars = 3
ScenarioBars == << <<10, 5>>, <<10, 5>>, <<10, 5>>, <<10, 5>>,
                   <<9, 4>>,  <<9, 4>>,  <<9, 4>>,  <<9, 4>> >>

VARIABLES
    \* ---- detect_box ----
    pc,             \* "loop": at the head of the for loop; "check": before the
                    \* confirmation test of iteration i; "done": returned
    i,              \* loop index: position of the current bar
    n_rows,         \* len(rows), known once the loop has run off the end
    prev_high, prev_low, curr_high, curr_low,
    pending_ceil, pending_floor, ceil_conf, floor_conf,
    box_ceiling, box_floor, box_conf_date,
    ceil_bars, floor_bars,
    in_scenario,    \* the rows read so far are the first i+1 rows of
                    \* ScenarioBars
    confirmations,  \* every box the loop has confirmed, oldest first
    span_high,      \* the highest High and
    span_low,       \* the lowest Low of the rows from the seed row (row 0,
                    \* or the row of the last confirmation) through row i-1
    \* ---- merge_into_watchlist ----
    wl,             \* the persisted watchlist: the rows of watchlist.csv, in
                    \* file order
    today,          \* the calendar day (datetime.now())
    runs,           \* merge runs so far
    scan_log,       \* for each run of run_scan so far, what it reported for
                    \* symbol A
    \* ---- analyse ----
    box,            \* the dict detect_box returned for the symbol
    daily,          \* the latest daily values: close, prev_close, atr_val,
                    \* vol_ratio
    require_vol,    \* cfg["require_vol"]
    result,         \* what analyse returned: a result dict or NoResult
    errors,         \* the symbols run_scan has put on its errors list
    \* ---- check_add_candidates ----
    results,        \* today's scan results
    add_candidates, \* what check_add_candidates returned, or ValueError
    \* ---- place_basket ----
    ob_pc,          \* "idle": not called; "built": orders built and previewed;
                    \* "placing": connected, in the submission loop;
                    \* "returned"; "raised": left by an exception
    hot_results,    \* the argument of place_basket
    order_cfg,      \* risk_per_trade and max_orders_daily of the order config
    dry_run,        \* the dry_run argument
    orders,         \* the orders built, in basket order
    next_order,     \* position of the submission loop in orders
    connected,      \* connect_breeze has returned a session
    sink_calls,     \* the calls of breeze.place_order, in call order: the
                    \* stock_code handed over and the kind of response
    order_log,      \* the audit logs written by _save_order_log
    single_qty,     \* the qty argument of place_single; 0 when place_single
                    \* is not the caller
    \* ---- run_scan and main, one per scanner process ----
    store,          \* watchlist.csv: what the file is (kind) and, for a
                    \* table with the watchlist columns, its rows
    rpc,            \* where each process is in main and run_scan
    rwl,            \* the local wl of run_scan as loaded (lines 727-846)
    rmerged,        \* the local wl of run_scan after the merge (line 847)
    rtodo,          \* the symbols of all_symbols not analysed yet
    rresults,       \* the local results of run_scan
    reads,          \* reads of watchlist.csv by the process so far
    writes,         \* writes of watchlist.csv by the process so far
    scan_saved      \* the process has written its darvas_scan_*.csv

boxvars == << pc, i, n_rows, prev_high, prev_low, curr_high, curr_low,
              pending_ceil, pending_floor, ceil_conf, floor_conf,
              box_ceiling, box_floor, box_conf_date,
              ceil_bars, floor_bars, in_scenario, confirmations,
              span_high, span_low >>

wlvars == << wl, today, runs, scan_log >>

scanvars == << box, daily, require_vol, result, errors >>

addvars == << results, add_candidates >>

ordvars == << ob_pc, hot_results, order_cfg, dry_run, orders, next_order,
              connected, sink_calls, order_log, single_qty >>

runvars == << store, rpc, rwl, rmerged, rtodo, rresults, reads, writes,
             scan_saved >>

vars == << boxvars, wlvars, scanvars, addvars, ordvars, runvars >>

\* the scanner processes started against the same watchlist.csv
Procs == {1, 2}

\* analyse returned None (lines 287, 291, 338)
NoResult == [status |-> "none"]

\* analyse has not been called
ScanIdle ==
    /\ box = [box_ceiling |-> None, box_floor |-> None,
              pending_ceil |-> None, pending_floor |-> None,
              ceil_conf |-> 0, floor_conf |-> 0]
    /\ daily = [close |-> 0, prev_close |-> 0, atr_val |-> 0, vol_ratio |-> 0]
    /\ require_vol = TRUE
    /\ result = NoResult
    /\ errors = << >>

\* check_add_candidates has not been called
AddIdle ==
    /\ results = << >>
    /\ add_candidates = [returned |-> FALSE, raised |-> "", value |-> << >>]

\* place_basket has not been called
OrdersIdle ==
    /\ ob_pc = "idle"
    /\ hot_results = << >>
    /\ order_cfg = [risk_per_trade |-> 0, max_orders_daily |-> 0]
    /\ dry_run = TRUE
    /\ orders = << >>
    /\ next_order = 1
    /\ connected = FALSE
    /\ sink_calls = << >>
    /\ order_log = << >>
    /\ single_qty = 0

\* no scanner process has been started
RunIdle ==
    /\ store = [kind |-> "absent", rows |-> << >>]
    /\ rpc = [p \in Procs |-> "off"]
    /\ rwl = [p \in Procs |-> << >>]
    /\ rmerged = [p \in Procs |-> << >>]
    /\ rtodo = [p \in Procs |-> << >>]
    /\ rresults = [p \in Procs |-> << >>]
    /\ reads = [p \in Procs |-> 0]
    /\ writes = [p \in Procs |-> 0]
    /\ scan_saved = [p \in Procs |-> FALSE]

(***************************************************************************)
(* detect_box                                                              *)
(***************************************************************************)

\* lines 233-241: the pending ceiling and its counter after looking at the
\* previous bar's high
TrackCeilingNoReset(pending, conf, high) ==
    IF pending = None THEN [level |-> high, conf |-> 0]
    ELSE IF high <= pending THEN [level |-> pending, conf |-> conf + 1]
    ELSE [level |-> high, conf |-> conf + 1]

TrackCeilingLast(pending, conf, high) ==
    IF pending = None THEN [level |-> high, conf |-> 0]
    ELSE IF high <= pending THEN [level |-> high, conf |-> conf + 1]
    ELSE [level |-> high, conf |-> 0]

TrackCeiling(pending, conf, high) ==
    IF pending = None THEN [level |-> high, conf |-> 0]
    ELSE IF high <= pending THEN [level |-> pending, conf |-> conf + 1]
    ELSE [level |-> high, conf |-> 0]

\* lines 243-251: the pending floor and its counter after looking at the
\* previous bar's low
TrackFloorStrict(pending, conf, low) ==
    IF pending = None THEN [level |-> low, conf |-> 0]
    ELSE IF low > pending THEN [level |-> pending, conf |-> conf + 1]
    ELSE [level |-> low, conf |-> 0]

TrackFloor(pending, conf, low) ==
    IF pending = None THEN [level |-> low, conf |-> 0]
    ELSE IF low >= pending THEN [level |-> pending, conf |-> conf + 1]
    ELSE [level |-> low, conf |-> 0]

\* line 254: the confirmation test
BoxConfirmedEither(cc, fc) == cc >= ceil_bars \/ fc >= floor_bars

BoxConfirmedStrict(cc, fc) == cc > ceil_bars /\ fc > floor_bars

BoxConfirmed(cc, fc) == cc >= ceil_bars /\ fc >= floor_bars

\* lines 213-225: the state before the first iteration; row 0 is the first
\* bar of the input
BoxInit ==
    /\ pc = "loop"
    /\ i = 0
    /\ n_rows = None
    /\ ceil_bars \in 1..MaxBars
    /\ floor_bars \in 1..MaxBars
    /\ \E b \in Bars : /\ curr_high = b[1]
                       /\ curr_low = b[2]
                       /\ in_scenario = (b = ScenarioBars[1])
    /\ prev_high = None /\ prev_low = None
    /\ pending_ceil = None /\ pending_floor = None
    /\ ceil_conf = 0 /\ floor_conf = 0
    /\ box_ceiling = None /\ box_floor = None /\ box_conf_date = None
    /\ confirmations = << >>
    /\ span_high = None /\ span_low = None
    /\ wl = << >> /\ today = 0 /\ runs = 0 /\ scan_log = << >>
    /\ ScanIdle /\ AddIdle /\ OrdersIdle /\ RunIdle

\* lines 227-251: enter iteration i+1 (there is a next row), read the bars at
\* i and i+1, update both pending levels
Track ==
    /\ pc = "loop"
    /\ i + 1 < MaxLen
    /\ \E b \in Bars :
        /\ prev_high' = curr_high
        /\ prev_low' = curr_low
        /\ curr_high' = b[1]
        /\ curr_low' = b[2]
        /\ in_scenario' = (/\ in_scenario
                            /\ i + 2 <= Len(ScenarioBars)
                            /\ b = ScenarioBars[i + 2])
    /\ i' = i + 1
    /\ LET c == TrackCeiling(pending_ceil, ceil_conf, curr_high)
           f == TrackFloor(pending_floor, floor_conf, curr_low)
       IN /\ pending_ceil' = c.level
          /\ ceil_conf' = c.conf
          /\ pending_floor' = f.level
          /\ floor_conf' = f.conf
    /\ span_high' = IF span_high = None THEN curr_high
                    ELSE Max(span_high, curr_high)
    /\ span_low' = IF span_low = None THEN curr_low
                   ELSE Min(span_low, curr_low)
    /\ pc' = "check"
    /\ UNCHANGED << n_rows, box_ceiling, box_floor, box_conf_date,
                    ceil_bars, floor_bars, confirmations >>
    /\ UNCHANGED << wlvars, scanvars, addvars, ordvars,
                    runvars >>

\* lines 254-263: both counters have reached their thresholds at bar i
Confirm ==
    /\ pc = "check"
    /\ BoxConfirmed(ceil_conf, floor_conf)
    /\ box_ceiling' = pending_ceil
    /\ box_floor' = pending_floor
    /\ box_conf_date' = i
    /\ ceil_conf' = 0
    /\ floor_conf' = 0
    /\ pending_ceil' = curr_high
    /\ pending_floor' = curr_low
    /\ confirmations' = Append(confirmations,
                               << pending_ceil, pending_floor, i >>)
    /\ span_high' = None /\ span_low' = None
    /\ pc' = "loop"
    /\ UNCHANGED << i, n_rows, prev_high, prev_low, curr_high, curr_low,
                    ceil_bars, floor_bars, in_scenario >>
    /\ UNCHANGED << wlvars, scanvars, addvars, ordvars,
                    runvars >>

\* line 254, test false: iteration i ends without a confirmation
NoConfirm ==
    /\ pc = "check"
    /\ ~ BoxConfirmed(ceil_conf, floor_conf)
    /\ pc' = "loop"
    /\ UNCHANGED << i, n_rows, prev_high, prev_low, curr_high, curr_low,
                    pending_ceil, pending_floor, ceil_conf, floor_conf,
                    box_ceiling, box_floor, box_conf_date,
                    ceil_bars, floor_bars, in_scenario, confirmations,
                    span_high, span_low >>
    /\ UNCHANGED << wlvars, scanvars, addvars, ordvars,
                    runvars >>

\* lines 227, 265-273: row i was the last one; the dict returned is the
\* seven variables as they stand
Return ==
    /\ pc = "loop"
    /\ n_rows' = i + 1
    /\ pc' = "done"
    /\ UNCHANGED << i, prev_high, prev_low, curr_high, curr_low,
                    pending_ceil, pending_floor, ceil_conf, floor_conf,
                    box_ceiling, box_floor, box_conf_date,
                    ceil_bars, floor_bars, in_scenario, confirmations,
                    span_high, span_low >>
    /\ UNCHANGED << wlvars, scanvars, addvars, ordvars,
                    runvars >>

detect_box == Track \/ Confirm \/ NoConfirm \/ Return

SpecBox == BoxInit /\ [][detect_box]_vars

(***************************************************************************)
(* merge_into_watchlist                                                    *)
(*                                                                         *)
(* A watchlist row is a record with the fifteen WATCHLIST_COLS.  A date    *)
(* cell holds a day number (the text of an ISO date), NaT (an empty cell)  *)
(* or BadDate (text pandas cannot read as a date).  box_width_pct is in    *)
(* tenths of a percent.  A missing numeric cell is None, a missing text    *)
(* cell is "".                                                             *)
(***************************************************************************)
NaT == None
BadDate == -2

\* cfg["watchlist_days"], line 603 (45 in CONFIG, scaled to the model's days)
max_days == 1

\* line 607
PROTECTED_STATUSES == {"POSITION OPEN", "POSITION CLOSED", "MANUAL"}

\* the statuses analyse assigns, lines 316, 359-368
ScanStatuses == {"FRESH BREAKOUT", "APPROACHING", "WATCHING", "BOX FORMING"}

Symbols == {"A", "B"}

\* analyse, lines 340-341, 395-404: the box metrics of a result for a box of
\* floor 200 * v and height 20 (sl_buffer_pct = 0.5)
BoxMetrics(v) ==
    LET floor == 200 * v
        ceil  == floor + 20
    IN [box_ceiling   |-> ceil,
        box_floor     |-> floor,
        box_width_pct |-> ((ceil - floor) * 1000) \div floor,
        sl_price      |-> floor - floor \div 200,
        mm_target     |-> ceil + (ceil - floor),
        days_in_box   |-> 7 * v]

\* analyse, lines 314-331 and 390-407, with run_scan's _source (line 749): the
\* fields of a result that merge_into_watchlist reads.  Each status comes with
\* its own box, so that an overwrite by a later result is visible.
ScanResult(sym, status) ==
    LET m == BoxMetrics(CASE status = "APPROACHING" -> 1
                          [] status = "WATCHING" -> 2
                          [] OTHER -> 4)
    IN IF status = "BOX FORMING"
       THEN [symbol |-> sym, status |-> status,
             box_ceiling |-> m.box_ceiling, box_floor |-> m.box_floor,
             box_width_pct |-> None, sl_price |-> None, mm_target |-> None,
             days_in_box |-> None,
             source |-> IF sym = "A" THEN "chartink" ELSE "watchlist"]
       ELSE [symbol |-> sym, status |-> status,
             box_ceiling |-> m.box_ceiling, box_floor |-> m.box_floor,
             box_width_pct |-> m.box_width_pct, sl_price |-> m.sl_price,
             mm_target |-> m.mm_target, days_in_box |-> m.days_in_box,
             source |-> IF sym = "A" THEN "chartink" ELSE "watchlist"]

Results == { ScanResult(sym, st) : sym \in Symbols, st \in ScanStatuses }

\* run_scan analyses every symbol once (line 730), so a run hands over at most
\* one result per symbol; merge_into_watchlist itself takes any list, and the
\* lists here may name a symbol twice
ResultLists == UNION { [1..n -> Results] : n \in 0..Cardinality(Symbols) }

\* line 612
Exists(w, sym) == \E k \in 1..Len(w) : w[k].symbol = sym

\* lines 616, 628, 655: the first row of the symbol
RowOf(w, sym) ==
    CHOOSE k \in 1..Len(w) :
        /\ w[k].symbol = sym
        /\ \A j \in 1..(k - 1) : w[j].symbol # sym

\* lines 615-618
IsProtectedOpenOnly(w, sym) ==
    Exists(w, sym) /\ w[RowOf(w, sym)].status = "POSITION OPEN"

IsProtected(w, sym) ==
    Exists(w, sym) /\ w[RowOf(w, sym)].status \in PROTECTED_STATUSES

\* lines 629-636
UpdateRowKeepPrev(e, r, now) ==
    [e EXCEPT !.status       = r.status,
              !.date_updated = now,
              !.box_ceiling  = r.box_ceiling,
              !.box_floor    = r.box_floor,
              !.sl_price     = r.sl_price,
              !.mm_target    = r.mm_target,
              !.days_in_box  = r.days_in_box]

UpdateRowAlsoWidth(e, r, now) ==
    [e EXCEPT !.prev_status   = e.status,
              !.status        = r.status,
              !.date_updated  = now,
              !.box_ceiling   = r.box_ceiling,
              !.box_floor     = r.box_floor,
              !.box_width_pct = r.box_width_pct,
              !.sl_price      = r.sl_price,
              !.mm_target     = r.mm_target,
              !.days_in_box   = r.days_in_box]

UpdateRow(e, r, now) ==
    [e EXCEPT !.prev_status  = e.status,
              !.status       = r.status,
              !.date_updated = now,
              !.box_ceiling  = r.box_ceiling,
              !.box_floor    = r.box_floor,
              !.sl_price     = r.sl_price,
              !.mm_target    = r.mm_target,
              !.days_in_box  = r.days_in_box]

\* lines 638-652: the columns new_row does not name are left empty by concat
NewRow(r, now) ==
    [symbol        |-> r.symbol,
     date_added    |-> now,
     date_updated  |-> now,
     prev_status   |-> r.status,
     status        |-> r.status,
     box_ceiling   |-> r.box_ceiling,
     box_floor     |-> r.box_floor,
     box_width_pct |-> r.box_width_pct,
     sl_price      |-> r.sl_price,
     mm_target     |-> r.mm_target,
     days_in_box   |-> r.days_in_box,
     source        |-> r.source,
     entry_price   |-> None,
     qty           |-> None,
     notes         |-> ""]

\* lines 655-657
RefreshRowAll(e, r, now) ==
    [e EXCEPT !.prev_status = e.status, !.date_updated = now,
              !.status = r.status,
              !.box_ceiling = r.box_ceiling, !.box_floor = r.box_floor]

RefreshRow(e, r, now) ==
    [e EXCEPT !.date_updated = now, !.status = r.status]

\* line 623
RemoveSymbol(w, sym) ==
    LET Keep(e) == e.symbol # sym IN SelectSeq(w, Keep)

\* lines 610-657: the body of the loop for one result
ApplyResultGraduateKeeps(w, r, now) ==
    IF IsProtected(w, r.symbol) THEN w
    ELSE IF r.status = "FRESH BREAKOUT" THEN w
    ELSE IF r.status \in {"APPROACHING", "WATCHING"}
    THEN IF Exists(w, r.symbol)
         THEN [w EXCEPT ![RowOf(w, r.symbol)] = UpdateRow(@, r, now)]
         ELSE Append(w, NewRow(r, now))
    ELSE IF r.status = "BOX FORMING" /\ Exists(w, r.symbol)
    THEN [w EXCEPT ![RowOf(w, r.symbol)] = RefreshRow(@, r, now)]
    ELSE w

ApplyResultAlwaysAdds(w, r, now) ==
    IF IsProtected(w, r.symbol) THEN w
    ELSE IF r.status = "FRESH BREAKOUT"
    THEN IF Exists(w, r.symbol) THEN RemoveSymbol(w, r.symbol) ELSE w
    ELSE IF r.status \in {"APPROACHING", "WATCHING"}
    THEN Append(w, NewRow(r, now))
    ELSE IF r.status = "BOX FORMING" /\ Exists(w, r.symbol)
    THEN [w EXCEPT ![RowOf(w, r.symbol)] = RefreshRow(@, r, now)]
    ELSE w

ApplyResult(w, r, now) ==
    IF IsProtected(w, r.symbol) THEN w
    ELSE IF r.status = "FRESH BREAKOUT"
    THEN IF Exists(w, r.symbol) THEN RemoveSymbol(w, r.symbol) ELSE w
    ELSE IF r.status \in {"APPROACHING", "WATCHING"}
    THEN IF Exists(w, r.symbol)
         THEN [w EXCEPT ![RowOf(w, r.symbol)] = UpdateRow(@, r, now)]
         ELSE Append(w, NewRow(r, now))
    ELSE IF r.status = "BOX FORMING" /\ Exists(w, r.symbol)
    THEN [w EXCEPT ![RowOf(w, r.symbol)] = RefreshRow(@, r, now)]
    ELSE w

\* lines 609-657: the loop over the results, in list order
RECURSIVE MergeLoop(_, _, _, _)
MergeLoop(w, rs, k, now) ==
    IF k > Len(rs) THEN w
    ELSE MergeLoop(ApplyResult(w, rs[k], now), rs, k + 1, now)

\* line 662: pd.to_datetime(..., errors="coerce") of one cell
to_datetime(d) == IF d >= 0 THEN d ELSE NaT

\* lines 663-668: age > max_days and not protected; the age of NaT is NaN,
\* which compares False
IsExpiredAtLimit(e, now) ==
    /\ e.date_added # NaT
    /\ now - e.date_added >= max_days
    /\ e.status \notin PROTECTED_STATUSES

IsExpired(e, now) ==
    /\ e.date_added # NaT
    /\ now - e.date_added > max_days
    /\ e.status \notin PROTECTED_STATUSES

\* lines 661-672: the date_added column is parsed in place, then the expired
\* rows are dropped; an empty frame is returned as it is
AutoExpire(w, now) ==
    IF Len(w) = 0 THEN w
    ELSE LET parsed == [k \in 1..Len(w) |->
                           [w[k] EXCEPT !.date_added = to_datetime(@)]]
             Keep(e) == ~ IsExpired(e, now)
         IN SelectSeq(parsed, Keep)

\* lines 589-674
merge_into_watchlist(w, rs, now) == AutoExpire(MergeLoop(w, rs, 1, now), now)

\* a row as an earlier run or the user left it in watchlist.csv
StoredRow(sym, status, added) ==
    [symbol        |-> sym,
     date_added    |-> added,
     date_updated  |-> 0,
     prev_status   |-> "WATCHING",
     status        |-> status,
     box_ceiling   |-> BoxMetrics(3).box_ceiling,
     box_floor     |-> BoxMetrics(3).box_floor,
     box_width_pct |-> BoxMetrics(3).box_width_pct,
     sl_price      |-> BoxMetrics(3).sl_price,
     mm_target     |-> BoxMetrics(3).mm_target,
     days_in_box   |-> BoxMetrics(3).days_in_box,
     source        |-> "chartink",
     entry_price   |-> IF status \in PROTECTED_STATUSES THEN 610 ELSE None,
     qty           |-> IF status \in PROTECTED_STATUSES THEN 10 ELSE None,
     notes         |-> IF status \in PROTECTED_STATUSES THEN "held" ELSE ""]

StoredStatuses == {"APPROACHING", "WATCHING", "BOX FORMING"} \cup PROTECTED_STATUSES

\* the watchlists a run can find on disk (load_watchlist, lines 516-523): no
\* row, a row of A, or a row of A followed by an open position in B
StoredWatchlists ==
    { << >> }
    \cup { << StoredRow("A", st, d) >> :
              st \in StoredStatuses, d \in {0, BadDate} }
    \cup { << StoredRow("A", st, d), StoredRow("B", sb, 0) >> :
              st \in StoredStatuses, d \in {0, BadDate},
              sb \in {"POSITION OPEN"} }

WatchlistInit ==
    /\ wl \in StoredWatchlists
    /\ today = 0
    /\ runs = 0
    /\ scan_log = << >>

\* run_scan, lines 846-848: one run merges its results into the watchlist
\* and saves it
Merge ==
    /\ runs < MaxRuns
    /\ \E rs \in ResultLists : wl' = merge_into_watchlist(wl, rs, today)
    /\ runs' = runs + 1
    /\ UNCHANGED << today, scan_log >>
    /\ UNCHANGED << boxvars, scanvars, addvars, ordvars,
                    runvars >>

\* midnight passes between two runs
Tick ==
    /\ today < MaxDay
    /\ today' = today + 1
    /\ UNCHANGED << wl, runs, scan_log >>
    /\ UNCHANGED << boxvars, scanvars, addvars, ordvars,
                    runvars >>

\* detect_box is not running
BoxNotRunning ==
    /\ pc = "done" /\ i = 0 /\ n_rows = None
    /\ prev_high = None /\ prev_low = None
    /\ curr_high = None /\ curr_low = None
    /\ pending_ceil = None /\ pending_floor = None
    /\ ceil_conf = 0 /\ floor_conf = 0
    /\ box_ceiling = None /\ box_floor = None /\ box_conf_date = None
    /\ in_scenario = FALSE
    /\ confirmations = << >>
    /\ span_high = None /\ span_low = None

BoxIdle == BoxNotRunning /\ ceil_bars = 1 /\ floor_bars = 1

Init ==
    BoxIdle /\ WatchlistInit /\ ScanIdle /\ AddIdle /\ OrdersIdle /\ RunIdle

Next == Merge \/ Tick

Spec == Init /\ [][Next]_vars

(***************************************************************************)
(* Properties of merge_into_watchlist                                      *)
(***************************************************************************)
SymbolsOf(w) == { w[k].symbol : k \in 1..Len(w) }

RowsOf(w, sym) == { k \in 1..Len(w) : w[k].symbol = sym }

OtherRows(w, sym) == LET Keep(e) == e.symbol # sym IN SelectSeq(w, Keep)

Unprotected(w, sym) ==
    \A k \in RowsOf(w, sym) : w[k].status \notin PROTECTED_STATUSES

\* the results of the list that are about the symbol
StatusesFor(rs, sym) == { rs[k].status : k \in { j \in 1..Len(rs) : rs[j].symbol = sym } }

\* the lists a run of run_scan hands over: no symbol twice
RunLists ==
    { rs \in ResultLists :
        \A j, k \in 1..Len(rs) : rs[j].symbol = rs[k].symbol => j = k }

\* C1 as stated: a run leaves every row whose status is protected in the
\* watchlist with every field as it was
C1_ProtectedRowsUntouched ==
    [][ \A k \in 1..Len(wl) :
            wl[k].status \in PROTECTED_STATUSES
                => \E j \in 1..Len(wl') : wl'[j] = wl[k] ]_vars

\* C2 as stated, on the lists run_scan hands over: a second run with the same
\* list leaves the set of symbols as it is and every row equal to its
\* first-run value in every field other than date_updated
SameButDateUpdated(e, f) ==
    [e EXCEPT !.date_updated = 0] = [f EXCEPT !.date_updated = 0]

C2_SecondRunChangesOnlyDateUpdated ==
    \A rs \in RunLists :
        LET w1 == merge_into_watchlist(wl, rs, today)
            w2 == merge_into_watchlist(w1, rs, today)
        IN /\ SymbolsOf(w2) = SymbolsOf(w1)
           /\ Len(w2) = Len(w1)
           /\ \A k \in 1..Len(w1) : \E j \in 1..Len(w2) :
                  SameButDateUpdated(w1[k], w2[j])

\* C2 amended: a second run on the same day with the same list removes no row
\* and duplicates none, every row of the first run keeps every field other
\* than date_updated and prev_status, and the only rows it adds are rows of
\* symbols whose row the first run updated and then expired, created anew
SameButDateUpdatedAndPrev(e, f) ==
    [e EXCEPT !.date_updated = 0, !.prev_status = ""]
        = [f EXCEPT !.date_updated = 0, !.prev_status = ""]

C2_SecondRunSameDay ==
    \A rs \in ResultLists :
        LET mid == MergeLoop(wl, rs, 1, today)
            w1  == merge_into_watchlist(wl, rs, today)
            w2  == merge_into_watchlist(w1, rs, today)
        IN /\ SymbolsOf(w1) \subseteq SymbolsOf(w2)
           /\ \A sym \in SymbolsOf(w1) :
                 /\ Cardinality(RowsOf(w2, sym)) = Cardinality(RowsOf(w1, sym))
                 /\ \A k \in RowsOf(w1, sym) : \E j \in RowsOf(w2, sym) :
                        SameButDateUpdatedAndPrev(w1[k], w2[j])
           /\ \A sym \in SymbolsOf(w2) \ SymbolsOf(w1) :
                 /\ sym \in SymbolsOf(mid)
                 /\ StatusesFor(rs, sym) \cap {"APPROACHING", "WATCHING"} # {}
                 /\ Cardinality(RowsOf(w2, sym)) = 1
                 /\ \A j \in RowsOf(w2, sym) : w2[j].date_added = today

\* a run has been made and repeating some list changes prev_status only
C2_Witness ==
    /\ runs >= 1
    /\ \E rs \in ResultLists :
          LET w1 == merge_into_watchlist(wl, rs, today)
              w2 == merge_into_watchlist(w1, rs, today)
          IN /\ w1 # wl
             /\ Len(w1) >= 1
             /\ w2 # w1
             /\ SymbolsOf(w2) = SymbolsOf(w1)

\* C3 as stated, on the lists run_scan hands over: the expiry step removes a
\* row iff its age exceeds watchlist_days, its status is not protected and
\* no rule touched it in this run; a row updated by an APPROACHING, WATCHING
\* or BOX FORMING result is retained by the run
TouchedBy(w, rs, sym) ==
    /\ Unprotected(w, sym)
    /\ \/ StatusesFor(rs, sym) \cap {"APPROACHING", "WATCHING"} # {}
       \/ "BOX FORMING" \in StatusesFor(rs, sym) /\ sym \in SymbolsOf(w)

Age(e, now) == now - e.date_added

C3_ExpiryUnlessTouched ==
    \A rs \in RunLists :
        LET mid == MergeLoop(wl, rs, 1, today)
            w1  == merge_into_watchlist(wl, rs, today)
        IN \A k \in 1..Len(mid) :
              (mid[k].symbol \notin SymbolsOf(w1))
                  <=> /\ to_datetime(mid[k].date_added) # NaT
                      /\ Age(mid[k], today) > max_days
                      /\ mid[k].status \notin PROTECTED_STATUSES
                      /\ ~ TouchedBy(wl, rs, mid[k].symbol)

\* C3 amended: the expiry step removes a row iff its date_added is a date
\* more than watchlist_days old and its status is not protected, whether or
\* not a rule updated it in this run; the rows it keeps stay in order
C3_ExpiryByAgeAndStatus ==
    \A rs \in ResultLists :
        LET mid == MergeLoop(wl, rs, 1, today)
            w1  == merge_into_watchlist(wl, rs, today)
            Old(e) == /\ to_datetime(e.date_added) # NaT
                      /\ Age(e, today) > max_days
                      /\ e.status \notin PROTECTED_STATUSES
            Kept   == { k \in 1..Len(mid) : ~ Old(mid[k]) }
        IN /\ Len(w1) = Cardinality(Kept)
           /\ \A k \in Kept :
                 LET pos == Cardinality({ j \in Kept : j <= k })
                 IN w1[pos] = [mid[k] EXCEPT !.date_added = to_datetime(@)]

\* an old unprotected row that a WATCHING result updates and the same run
\* expires
C3_Witness ==
    /\ runs >= 1
    /\ \E k \in 1..Len(wl) :
          /\ wl[k].status \notin PROTECTED_STATUSES
          /\ wl[k].date_added >= 0
          /\ today - wl[k].date_added > max_days
          /\ wl[k].symbol \notin SymbolsOf(merge_into_watchlist(
                 wl, << ScanResult(wl[k].symbol, "WATCHING") >>, today))

FreshResults == { r \in Results : r.status = "FRESH BREAKOUT" }

\* C4: a FRESH BREAKOUT result for an unprotected symbol removes the rows of
\* the symbol and leaves the other rows as they are, in order; if the symbol
\* has no row the result changes nothing; after a run whose results for the
\* symbol are all FRESH BREAKOUT the watchlist has no row of the symbol
C4_FreshBreakoutGraduates ==
    /\ \A r \in FreshResults :
          Unprotected(wl, r.symbol) =>
              LET w1 == ApplyResult(wl, r, today)
              IN /\ r.symbol \notin SymbolsOf(w1)
                 /\ w1 = OtherRows(wl, r.symbol)
                 /\ (r.symbol \notin SymbolsOf(wl)) => w1 = wl
    /\ \A rs \in ResultLists : \A sym \in Symbols :
          (Unprotected(wl, sym) /\ StatusesFor(rs, sym) = {"FRESH BREAKOUT"})
              => sym \notin SymbolsOf(merge_into_watchlist(wl, rs, today))

\* after a run, an unprotected row of A next to a row of B
C4_Witness ==
    /\ runs >= 1
    /\ "A" \in SymbolsOf(wl) /\ Unprotected(wl, "A")
    /\ "B" \in SymbolsOf(wl)
    /\ ApplyResult(wl, ScanResult("A", "FRESH BREAKOUT"), today) # wl

TrackedResults == { r \in Results : r.status \in {"APPROACHING", "WATCHING"} }

\* C5: an APPROACHING or WATCHING result for an unprotected symbol updates the
\* existing row in place (prev_status takes the status the row had, status,
\* box_ceiling, box_floor, sl_price, mm_target, days_in_box take the result's
\* values, date_updated is today), or else appends exactly one row with
\* date_added = date_updated = today, the result's status and its source
C5_ApproachingWatchingUpserts ==
    \A r \in TrackedResults :
        Unprotected(wl, r.symbol) =>
            LET w1 == ApplyResult(wl, r, today)
            IN IF r.symbol \in SymbolsOf(wl)
               THEN /\ Len(w1) = Len(wl)
                    /\ \A k \in 1..Len(wl) :
                          IF wl[k].symbol = r.symbol
                          THEN /\ w1[k].symbol = r.symbol
                               /\ w1[k].prev_status = wl[k].status
                               /\ w1[k].status = r.status
                               /\ w1[k].box_ceiling = r.box_ceiling
                               /\ w1[k].box_floor = r.box_floor
                               /\ w1[k].sl_price = r.sl_price
                               /\ w1[k].mm_target = r.mm_target
                               /\ w1[k].days_in_box = r.days_in_box
                               /\ w1[k].date_updated = today
                          ELSE w1[k] = wl[k]
               ELSE /\ Len(w1) = Len(wl) + 1
                    /\ SubSeq(w1, 1, Len(wl)) = wl
                    /\ w1[Len(w1)].symbol = r.symbol
                    /\ w1[Len(w1)].date_added = today
                    /\ w1[Len(w1)].date_updated = today
                    /\ w1[Len(w1)].status = r.status
                    /\ w1[Len(w1)].source = r.source

\* after a run, a row with an older date_added whose status differs from the
\* status of an APPROACHING result, and a symbol without a row
C5_Witness ==
    /\ runs >= 1
    /\ \E k \in 1..Len(wl) :
          /\ wl[k].status = "WATCHING"
          /\ wl[k].prev_status = "APPROACHING"
          /\ wl[k].date_added >= 0 /\ wl[k].date_added < today
          /\ wl[k].box_floor # ScanResult(wl[k].symbol, "APPROACHING").box_floor
    /\ \E sym \in Symbols : sym \notin SymbolsOf(wl)

FormingResults == { r \in Results : r.status = "BOX FORMING" }

\* C6: a BOX FORMING result creates no row; on an existing unprotected row it
\* sets status and date_updated and leaves every other field, and every
\* other row, as it was
C6_BoxFormingRefreshesOnly ==
    \A r \in FormingResults :
        LET w1 == ApplyResult(wl, r, today)
        IN /\ (r.symbol \notin SymbolsOf(wl)) =>
                 /\ w1 = wl
                 /\ r.symbol \notin
                        SymbolsOf(merge_into_watchlist(wl, << r >>, today))
           /\ (r.symbol \in SymbolsOf(wl) /\ Unprotected(wl, r.symbol)) =>
                 /\ Len(w1) = Len(wl)
                 /\ \A k \in 1..Len(wl) :
                       IF wl[k].symbol = r.symbol
                       THEN /\ w1[k].status = "BOX FORMING"
                            /\ w1[k].date_updated = today
                            /\ [w1[k] EXCEPT !.status = wl[k].status,
                                             !.date_updated = wl[k].date_updated]
                                   = wl[k]
                       ELSE w1[k] = wl[k]

\* after a run, on a later day, an unprotected row whose prev_status differs
\* from its status, and a symbol without a row
C6_Witness ==
    /\ runs >= 1
    /\ \E k \in 1..Len(wl) :
          /\ wl[k].status \in {"APPROACHING", "WATCHING"}
          /\ wl[k].prev_status # wl[k].status
          /\ wl[k].date_updated < today
    /\ \E sym \in Symbols : sym \notin SymbolsOf(wl)

(***************************************************************************)
(* Properties of detect_box                                                *)
(***************************************************************************)
ConfirmationDates == { confirmations[k][3] : k \in 1..Len(confirmations) }

\* a step of the loop that confirms a box
Confirming == box_conf_date' # box_conf_date

\* C7 as stated: no box is confirmed at a bar index smaller than
\* ceil_bars + floor_bars
C7_NotBeforeSumOfThresholds ==
    \A d \in ConfirmationDates : d >= ceil_bars + floor_bars

\* C7 amended: the two counters advance in parallel, so no box is confirmed
\* at a bar index smaller than max(ceil_bars, floor_bars) + 1
C7_NotBeforeLargerThresholdPlusOne ==
    \A d \in ConfirmationDates : d >= Max(ceil_bars, floor_bars) + 1

\* a box confirmed at index max + 1, before index ceil_bars + floor_bars
C7_Witness ==
    /\ ceil_bars # floor_bars
    /\ Len(confirmations) >= 1
    /\ confirmations[1][3] = Max(ceil_bars, floor_bars) + 1
    /\ confirmations[1][3] < ceil_bars + floor_bars

\* C8: a box is confirmed at bar i only in the confirmation test of bar i and
\* only with both counters at or above their thresholds there; a test that
\* finds one counter short confirms nothing
C8_SimultaneousConfirmation ==
    [][ /\ Confirming => /\ pc = "check"
                         /\ box_conf_date' = i
                         /\ ceil_conf >= ceil_bars
                         /\ floor_conf >= floor_bars
        /\ (pc = "check" /\ (ceil_conf < ceil_bars \/ floor_conf < floor_bars))
              => /\ ~ Confirming
                 /\ confirmations' = confirmations
                 /\ box_ceiling' = box_ceiling
                 /\ box_floor' = box_floor ]_vars

\* the ceiling counter has passed its threshold, the floor counter has not,
\* the test of that bar is over and no box has been confirmed
C8_Witness ==
    /\ pc = "loop"
    /\ i >= 1
    /\ ceil_conf >= ceil_bars
    /\ floor_conf < floor_bars
    /\ confirmations = << >>
    /\ box_conf_date = None

\* C9: on the scenario bars with ceil_bars = floor_bars = 3 both counters
\* first reach 3 at bar 4 and the box confirmed there is ceiling 10, floor 5;
\* in general a confirmation records the pending ceiling and the pending
\* floor held at that bar
C9_Scenario ==
    (in_scenario /\ ceil_bars = 3 /\ floor_bars = 3) =>
        /\ (i < 4 \/ (i = 4 /\ pc = "check")) =>
              /\ confirmations = << >>
              /\ (ceil_conf >= 3 /\ floor_conf >= 3) => i = 4
        /\ (i = 4 /\ pc = "check") => (ceil_conf = 3 /\ floor_conf = 3)
        /\ (i > 4 \/ (i = 4 /\ pc # "check")) =>
              /\ Len(confirmations) >= 1
              /\ confirmations[1] = << 10, 5, 4 >>

C9_ConfirmationRecordsPending ==
    [] C9_Scenario
    /\ [][ Confirming => /\ box_ceiling' = pending_ceil
                         /\ box_floor' = pending_floor
                         /\ box_conf_date' = i ]_vars

\* detect_box has returned from the eight scenario bars
C9_Witness ==
    /\ in_scenario /\ ceil_bars = 3 /\ floor_bars = 3
    /\ pc = "done" /\ n_rows = 8
    /\ confirmations[1] = << 10, 5, 4 >>

\* C10: each iteration applies the tracking rules to the previous bar, a
\* confirmation resets both counters and reseeds both levels from the current
\* bar, and the box returned is the last one confirmed
C10_TrackingRule ==
    (pc = "loop" /\ pc' = "check") =>
        /\ i' = i + 1
        /\ prev_high' = curr_high /\ prev_low' = curr_low
        /\ IF pending_ceil = None
           THEN pending_ceil' = prev_high' /\ ceil_conf' = 0
           ELSE IF ~ (prev_high' > pending_ceil)
           THEN pending_ceil' = pending_ceil /\ ceil_conf' = ceil_conf + 1
           ELSE pending_ceil' = prev_high' /\ ceil_conf' = 0
        /\ IF pending_floor = None
           THEN pending_floor' = prev_low' /\ floor_conf' = 0
           ELSE IF ~ (prev_low' < pending_floor)
           THEN pending_floor' = pending_floor /\ floor_conf' = floor_conf + 1
           ELSE pending_floor' = prev_low' /\ floor_conf' = 0
        /\ ~ Confirming

C10_ConfirmationRule ==
    Confirming =>
        /\ ceil_conf' = 0 /\ floor_conf' = 0
        /\ pending_ceil' = curr_high /\ pending_floor' = curr_low
        /\ confirmations' = Append(confirmations,
                                   << box_ceiling', box_floor', box_conf_date' >>)

C10_ReturnsLastConfirmed ==
    pc = "done" =>
        IF confirmations = << >>
        THEN box_ceiling = None /\ box_floor = None /\ box_conf_date = None
        ELSE << box_ceiling, box_floor, box_conf_date >>
                = confirmations[Len(confirmations)]

C10_TransitionRules ==
    [] C10_ReturnsLastConfirmed
    /\ [][ C10_TrackingRule /\ C10_ConfirmationRule ]_vars

\* detect_box has returned after confirming two different boxes
C10_Witness ==
    /\ pc = "done"
    /\ Len(confirmations) >= 2
    /\ confirmations[1][1] # confirmations[2][1]
    /\ box_ceiling = confirmations[Len(confirmations)][1]

(***************************************************************************)
(* analyse                                                                 *)
(*                                                                         *)
(* Prices are in paise (hundredths of a rupee), the volume ratio is in     *)
(* hundredths, percentages are in tenths of a percent and atr_mult_bo is   *)
(* in tenths.  A comparison of a quotient with a threshold is made on the  *)
(* cross product, so the values compared are the unrounded ones the code   *)
(* compares; the fields of the result carry the rounded values.            *)
(***************************************************************************)

\* CONFIG, lines 46-79
atr_mult_bo   == 1
vol_mult      == 150
sl_buffer_pct == 5
max_box_width == 350
hot_dist_pct  == 20
hot_vol_mult  == 200
warm_dist_pct == 40
warm_vol_mult == 130
proximity_pct == 70

\* round(n / d, k) for d > 0, n and d scaled so that the result is an integer
\* number of the last decimal kept: to nearest, a tie to the even neighbour
RoundHalfEven(n, d) ==
    LET q == n \div d
        r == n % d
    IN IF 2 * r < d THEN q
       ELSE IF 2 * r > d THEN q + 1
       ELSE IF q % 2 = 0 THEN q ELSE q + 1

\* line 355
breakout_raw(b, d) ==
    d.close * 1000 > b.box_ceiling * 1000 + d.atr_val * atr_mult_bo * 100

\* line 356
vol_ok(d, rv) == IF rv THEN d.vol_ratio >= vol_mult ELSE TRUE

\* line 357
fresh_breakoutAnyDay(b, d, rv) == breakout_raw(b, d) /\ vol_ok(d, rv)

fresh_breakout(b, d, rv) ==
    breakout_raw(b, d) /\ vol_ok(d, rv) /\ d.prev_close <= b.box_ceiling

\* line 343 against a threshold p: dist_to_ceil <= p, dist_to_ceil >= 0
DistAtMost(b, d, p) == (b.box_ceiling - d.close) * 1000 <= p * d.close

DistNonNegative(b, d) == b.box_ceiling - d.close >= 0

\* lines 359-368
StatusOfProximityFirst(b, d, rv) ==
    IF fresh_breakout(b, d, rv) THEN "FRESH BREAKOUT"
    ELSE IF DistAtMost(b, d, proximity_pct) THEN "APPROACHING"
    ELSE "WATCHING"

StatusOf(b, d, rv) ==
    IF fresh_breakout(b, d, rv) THEN "FRESH BREAKOUT"
    ELSE IF breakout_raw(b, d) /\ vol_ok(d, rv) THEN "WATCHING"
    ELSE IF DistNonNegative(b, d) /\ DistAtMost(b, d, proximity_pct)
    THEN "APPROACHING"
    ELSE "WATCHING"

\* lines 376-388
TierOfWarmFirst(status, b, d) ==
    IF status = "APPROACHING"
    THEN IF DistAtMost(b, d, warm_dist_pct) /\ d.vol_ratio >= warm_vol_mult
         THEN "WARM"
         ELSE IF DistAtMost(b, d, hot_dist_pct) /\ d.vol_ratio >= hot_vol_mult
         THEN "HOT"
         ELSE "WATCH"
    ELSE IF status = "WATCHING" /\ d.vol_ratio * 10 >= hot_vol_mult * 15
    THEN "VOL-SURGE"
    ELSE ""

TierOf(status, b, d) ==
    IF status = "APPROACHING"
    THEN IF DistAtMost(b, d, hot_dist_pct) /\ d.vol_ratio >= hot_vol_mult
         THEN "HOT"
         ELSE IF DistAtMost(b, d, warm_dist_pct) /\ d.vol_ratio >= warm_vol_mult
         THEN "WARM"
         ELSE "WATCH"
    ELSE IF status = "WATCHING" /\ d.vol_ratio * 10 >= hot_vol_mult * 15
    THEN "VOL-SURGE"
    ELSE ""

\* line 334 against cfg["max_box_width"], line 337
TooWide(b) ==
    (b.box_ceiling - b.box_floor) * 1000 > max_box_width * b.box_floor

\* lines 310-331: no box has been confirmed
FormingResultSmallerGap(b, d) ==
    [status           |-> "BOX FORMING",
     alert_tier       |-> "",
     close            |-> d.close,
     box_ceiling      |-> b.pending_ceil,
     box_floor        |-> b.pending_floor,
     box_width_pct    |-> None,
     dist_to_ceil     |-> None,
     sl_price         |-> None,
     mm_target        |-> None,
     risk_pct         |-> None,
     rr_ratio         |-> None,
     vol_ratio        |-> d.vol_ratio,
     weeks_to_confirm |-> IF ceil_bars - b.ceil_conf <= floor_bars - b.floor_conf
                          THEN ceil_bars - b.ceil_conf
                          ELSE floor_bars - b.floor_conf,
     ceil_conf        |-> b.ceil_conf,
     floor_conf       |-> b.floor_conf]

FormingResult(b, d) ==
    [status           |-> "BOX FORMING",
     alert_tier       |-> "",
     close            |-> d.close,
     box_ceiling      |-> b.pending_ceil,
     box_floor        |-> b.pending_floor,
     box_width_pct    |-> None,
     dist_to_ceil     |-> None,
     sl_price         |-> None,
     mm_target        |-> None,
     risk_pct         |-> None,
     rr_ratio         |-> None,
     vol_ratio        |-> d.vol_ratio,
     weeks_to_confirm |-> Max(ceil_bars - b.ceil_conf,
                              floor_bars - b.floor_conf),
     ceil_conf        |-> b.ceil_conf,
     floor_conf       |-> b.floor_conf]

\* lines 334-407: a confirmed box that is narrow enough.  sl, risk and reward
\* are in thousandths of a paisa until they are rounded.
ClassifiedResult(b, d, rv) ==
    LET status == StatusOf(b, d, rv)
        sl     == b.box_floor * (1000 - sl_buffer_pct)
        target == b.box_ceiling + (b.box_ceiling - b.box_floor)
        risk   == d.close * 1000 - sl
        reward == (target - d.close) * 1000
    IN [status           |-> status,
        alert_tier       |-> TierOf(status, b, d),
        close            |-> d.close,
        box_ceiling      |-> b.box_ceiling,
        box_floor        |-> b.box_floor,
        box_width_pct    |-> RoundHalfEven((b.box_ceiling - b.box_floor) * 1000,
                                           b.box_floor),
        dist_to_ceil     |-> RoundHalfEven((b.box_ceiling - d.close) * 1000,
                                           d.close),
        sl_price         |-> RoundHalfEven(sl, 1000),
        mm_target        |-> target,
        risk_pct         |-> IF risk # 0
                             THEN RoundHalfEven(risk, d.close) ELSE None,
        rr_ratio         |-> IF risk > 0 /\ reward # 0
                             THEN RoundHalfEven(reward * 100, risk) ELSE None,
        vol_ratio        |-> d.vol_ratio,
        weeks_to_confirm |-> None,
        ceil_conf        |-> b.ceil_conf,
        floor_conf       |-> b.floor_conf]

\* lines 293-407, from the dict of detect_box and the latest daily values on
analyse(b, d, rv) ==
    IF b.box_ceiling = None THEN FormingResult(b, d)
    ELSE IF TooWide(b) THEN NoResult
    ELSE ClassifiedResult(b, d, rv)

\* the daily values analyse is given: closes from below the floor of 90.00 to
\* above the breakout threshold, previous closes below, at and above
\* it, an ATR of 0.50 or none, volume ratios around every volume threshold;
\* and the close of a share that trades at 0.10
Closes     == {10, 8500, 9000, 9500, 9700, 9900, 10000, 10004, 10005, 10010}
PrevCloses == {8900, 10000, 10010}
Atrs       == {0, 50}
VolRatios  == {0, 100, 130, 150, 200, 300}

Dailies ==
    [close : Closes, prev_close : PrevCloses, atr_val : Atrs,
     vol_ratio : VolRatios]

\* what detect_box can return: a confirmed box 90.00 to 100.00, a confirmed
\* box 70.00 to 100.00, a confirmed box of a share whose weekly bars all have
\* High = Low = 0.10, or no box with the counters short of a confirmation
ConfirmedBoxes ==
    { [box_ceiling |-> 10000, box_floor |-> f,
       pending_ceil |-> 9900, pending_floor |-> 9100,
       ceil_conf |-> 1, floor_conf |-> 1] : f \in {9000, 7000} }
    \cup { [box_ceiling |-> 10, box_floor |-> 10,
             pending_ceil |-> 10, pending_floor |-> 10,
             ceil_conf |-> 1, floor_conf |-> 1] }

FormingBoxes(cb, fb) ==
    { [box_ceiling |-> None, box_floor |-> None,
       pending_ceil |-> 10000, pending_floor |-> 9000,
       ceil_conf |-> cc, floor_conf |-> fc] :
        cc \in 0..MaxBars, fc \in 0..MaxBars } \
    { [box_ceiling |-> None, box_floor |-> None,
       pending_ceil |-> 10000, pending_floor |-> 9000,
       ceil_conf |-> cc, floor_conf |-> fc] :
        cc \in cb..MaxBars, fc \in fb..MaxBars }

\* run_scan, lines 745-759: a symbol is about to be analysed
AnalyseInit ==
    /\ BoxNotRunning
    /\ ceil_bars \in 1..MaxBars
    /\ floor_bars \in 1..MaxBars
    /\ box \in ConfirmedBoxes \cup FormingBoxes(ceil_bars, floor_bars)
    /\ daily \in Dailies
    /\ require_vol \in BOOLEAN
    /\ result = NoResult
    /\ errors = << >>
    /\ wl = << >> /\ today = 0 /\ runs = 0 /\ scan_log = << >>
    /\ AddIdle /\ OrdersIdle /\ RunIdle

\* run_scan, lines 750-757: the symbol is analysed; its result goes to the
\* results, and a symbol without a result goes to the errors
Analyse ==
    /\ result = NoResult /\ errors = << >>
    /\ result' = analyse(box, daily, require_vol)
    /\ errors' = IF analyse(box, daily, require_vol) = NoResult
                 THEN Append(errors, "A") ELSE errors
    /\ UNCHANGED << box, daily, require_vol >>
    /\ UNCHANGED << boxvars, wlvars, addvars, ordvars,
                    runvars >>

SpecAnalyse == AnalyseInit /\ [][Analyse]_vars

(***************************************************************************)
(* Properties of analyse                                                   *)
(***************************************************************************)

\* analyse has returned a result for a confirmed box that was not excluded
Classified == result # NoResult /\ box.box_ceiling # None

\* close > ceiling + atr * atrBreakoutMultiple
BreakoutRawNow ==
    daily.close * 1000 > box.box_ceiling * 1000 + daily.atr_val * 100 * atr_mult_bo

\* requireVolumeForBreakout is false or volumeRatio >= volumeSurgeMultiple
VolumeOkNow == (~ require_vol) \/ daily.vol_ratio >= vol_mult

\* 0 <= distToCeilingPct <= proximityPct
InProximityNow ==
    /\ box.box_ceiling - daily.close >= 0
    /\ (box.box_ceiling - daily.close) * 1000 <= proximity_pct * daily.close

\* distToCeilingPct <= p, volumeRatio >= v
NearWithVolume(p, v) ==
    /\ (box.box_ceiling - daily.close) * 1000 <= p * daily.close
    /\ daily.vol_ratio >= v

\* C11: for a confirmed box that is not excluded, the status is FRESH
\* BREAKOUT exactly when the close exceeds the ceiling by the ATR margin, the
\* volume condition holds and the previous close was at or below the ceiling
C11_FreshBreakoutIff ==
    Classified =>
        (result.status = "FRESH BREAKOUT"
            <=> (/\ BreakoutRawNow
                 /\ VolumeOkNow
                 /\ daily.prev_close <= box.box_ceiling))

\* a fresh breakout that needed the volume surge
C11_Witness ==
    /\ Classified
    /\ result.status = "FRESH BREAKOUT"
    /\ require_vol
    /\ daily.atr_val > 0

\* C12: a classified symbol that is not FRESH BREAKOUT is WATCHING when the
\* breakout and volume conditions hold, otherwise APPROACHING exactly when the
\* distance to the ceiling is between 0 and proximity_pct, otherwise WATCHING;
\* the status is one of the three, and a close above the ceiling is never
\* APPROACHING
C12_StatusRule ==
    Classified =>
        /\ result.status \in {"FRESH BREAKOUT", "APPROACHING", "WATCHING"}
        /\ result.status # "FRESH BREAKOUT" =>
              IF BreakoutRawNow /\ VolumeOkNow
              THEN result.status = "WATCHING"
              ELSE IF InProximityNow
              THEN result.status = "APPROACHING"
              ELSE result.status = "WATCHING"
        /\ daily.close > box.box_ceiling => result.status # "APPROACHING"

\* a close above the ceiling but within the ATR margin, classified WATCHING
C12_Witness ==
    /\ Classified
    /\ daily.close > box.box_ceiling
    /\ ~ BreakoutRawNow
    /\ result.status = "WATCHING"

\* C13 as stated: every APPROACHING or WATCHING result is HOT, WARM or WATCH
\* by the distance and volume thresholds
C13_TierOfApproachingOrWatching ==
    (Classified /\ result.status \in {"APPROACHING", "WATCHING"}) =>
        result.alert_tier =
            IF NearWithVolume(hot_dist_pct, hot_vol_mult) THEN "HOT"
            ELSE IF NearWithVolume(warm_dist_pct, warm_vol_mult) THEN "WARM"
            ELSE "WATCH"

\* C13, amended: the HOT / WARM / WATCH rule, on the unrounded distance and
\* volume ratio, is the tier of APPROACHING results; a WATCHING result has the
\* tier VOL-SURGE when its volume ratio is at least 1.5 * hot_vol_mult and no
\* tier otherwise, and a FRESH BREAKOUT result has no tier.  Ceiling 100,
\* close 99, volume ratio 2.0 is APPROACHING and HOT.
C13_TierRule ==
    Classified =>
        /\ result.status = "APPROACHING" =>
              result.alert_tier =
                  IF NearWithVolume(hot_dist_pct, hot_vol_mult) THEN "HOT"
                  ELSE IF NearWithVolume(warm_dist_pct, warm_vol_mult)
                  THEN "WARM"
                  ELSE "WATCH"
        /\ result.status = "WATCHING" =>
              result.alert_tier =
                  IF daily.vol_ratio * 10 >= hot_vol_mult * 15
                  THEN "VOL-SURGE" ELSE ""
        /\ result.status = "FRESH BREAKOUT" => result.alert_tier = ""
        /\ (box.box_ceiling = 10000 /\ daily.close = 9900
               /\ daily.vol_ratio = 200) =>
              result.status = "APPROACHING" /\ result.alert_tier = "HOT"

\* the scenario of the specification has been classified
C13_Witness ==
    /\ Classified
    /\ box.box_ceiling = 10000 /\ box.box_floor = 9000
    /\ daily = [close |-> 9900, prev_close |-> 8900, atr_val |-> 50,
                vol_ratio |-> 200]
    /\ result.alert_tier = "HOT"

(***************************************************************************)
(* check_add_candidates                                                    *)
(*                                                                         *)
(* Prices are in rupees.  An empty entry_price or qty cell of the CSV is   *)
(* read as NaN, which is None here: NaN is truthy, so `cell or 0` leaves   *)
(* it NaN, every comparison with it is False, and int(NaN) raises.         *)
(***************************************************************************)

\* the fields of a result that check_add_candidates reads
AddResult(sym, status, ceil) ==
    [symbol      |-> sym,
     status      |-> status,
     alert_tier  |-> IF status = "APPROACHING" THEN "HOT" ELSE "",
     box_ceiling |-> ceil]

AddResults ==
    { AddResult(sym, st, c) :
        sym \in Symbols, st \in ScanStatuses, c \in {480, 500, 520} }

\* run_scan analyses every symbol once (line 730): no symbol twice
AddResultLists ==
    { rs \in UNION { [1..n -> AddResults] : n \in 0..Cardinality(Symbols) } :
        \A j, k \in 1..Len(rs) : rs[j].symbol = rs[k].symbol => j = k }

\* a row of watchlist.csv with the position columns as the user left them
PositionRow(sym, status, entry, qty) ==
    [StoredRow(sym, status, 0) EXCEPT !.entry_price = entry, !.qty = qty]

AddWatchlists ==
    { << >> }
    \cup { << PositionRow("A", st, e, q) >> :
              st \in {"POSITION OPEN", "POSITION CLOSED", "WATCHING"},
              e \in {500, 0, None}, q \in {10, None} }
    \cup { << PositionRow("A", st, e, q),
              PositionRow("B", "POSITION OPEN", 500, 10) >> :
              st \in {"POSITION OPEN", "POSITION CLOSED", "WATCHING"},
              e \in {500, 0, None}, q \in {10, None} }

\* line 556: the dict keeps the last result of a symbol
ResultOf(rs, sym) ==
    rs[CHOOSE k \in 1..Len(rs) :
          /\ rs[k].symbol = sym
          /\ \A j \in (k + 1)..Len(rs) : rs[j].symbol # sym]

\* lines 564-566
orig_entry(pos) == pos.entry_price

new_ceiling(scan) == IF scan.box_ceiling = None THEN 0 ELSE scan.box_ceiling

\* lines 569-570: orig_entry <= 0 or new_ceiling <= orig_entry, False on NaN
NoHigherBox(pos, scan) ==
    /\ orig_entry(pos) # None
    /\ \/ orig_entry(pos) <= 0
       \/ new_ceiling(scan) <= orig_entry(pos)

\* lines 558-574: the position passes every `continue`
IsAddCandidate(rs, pos) ==
    /\ \E k \in 1..Len(rs) : rs[k].symbol = pos.symbol
    /\ ~ NoHigherBox(pos, ResultOf(rs, pos.symbol))
    /\ ResultOf(rs, pos.symbol).status \in {"FRESH BREAKOUT", "APPROACHING"}

\* lines 577-583: gain in tenths of a percent, NaN for a NaN entry price
Candidate(scan, pos) ==
    [symbol         |-> scan.symbol,
     status         |-> scan.status,
     alert_tier     |-> scan.alert_tier,
     box_ceiling    |-> scan.box_ceiling,
     _add_orig_entry |-> orig_entry(pos),
     _add_orig_qty  |-> pos.qty,
     _add_tier      |-> scan.alert_tier,
     _add_gain_pct  |-> IF orig_entry(pos) = None THEN None
                        ELSE RoundHalfEven(
                                 (new_ceiling(scan) - orig_entry(pos)) * 1000,
                                 orig_entry(pos))]

\* lines 550-553
open_pos(w) == LET Open(e) == e.status = "POSITION OPEN" IN SelectSeq(w, Open)

\* lines 558-584: the loop over the open positions, in row order; int() of a
\* NaN qty raises ValueError out of the function
RECURSIVE AddLoop(_, _, _, _)
AddLoop(op, rs, k, acc) ==
    IF k > Len(op) THEN [returned |-> TRUE, raised |-> "", value |-> acc]
    ELSE IF ~ IsAddCandidate(rs, op[k]) THEN AddLoop(op, rs, k + 1, acc)
    ELSE IF op[k].qty = None
    THEN [returned |-> FALSE, raised |-> "ValueError", value |-> << >>]
    ELSE AddLoop(op, rs, k + 1,
                 Append(acc, Candidate(ResultOf(rs, op[k].symbol), op[k])))

\* lines 532-586
check_add_candidates(rs, w) == AddLoop(open_pos(w), rs, 1, << >>)

\* run_scan, lines 726-727 and 745-762: the watchlist is loaded and the
\* results of the run are in
AddInit ==
    /\ wl \in AddWatchlists
    /\ today = 0 /\ runs = 0 /\ scan_log = << >>
    /\ results \in AddResultLists
    /\ add_candidates = [returned |-> FALSE, raised |-> "", value |-> << >>]
    /\ BoxIdle /\ ScanIdle /\ OrdersIdle /\ RunIdle

\* run_scan, line 815
CheckAdd ==
    /\ add_candidates' = check_add_candidates(results, wl)
    /\ UNCHANGED results
    /\ UNCHANGED << boxvars, wlvars, scanvars, ordvars,
                    runvars >>

SpecAdd == AddInit /\ [][CheckAdd]_vars

(***************************************************************************)
(* Properties of check_add_candidates                                      *)
(***************************************************************************)

\* the symbols of the candidates emitted
CandidateSymbols ==
    { add_candidates.value[k].symbol : k \in 1..Len(add_candidates.value) }

\* the row is an open position with a known entry price, and today's results
\* hold a result of the symbol, APPROACHING or FRESH BREAKOUT, with a ceiling
\* above that price
HigherBoxAboveEntry(e) ==
    /\ e.status = "POSITION OPEN"
    /\ e.entry_price # None /\ e.entry_price > 0
    /\ \E k \in 1..Len(results) :
          /\ results[k].symbol = e.symbol
          /\ results[k].box_ceiling # None
          /\ results[k].box_ceiling > e.entry_price
          /\ results[k].status \in {"APPROACHING", "FRESH BREAKOUT"}

\* C14 as stated: once check_add_candidates has returned, the symbols of the
\* candidates are those of the open positions with a known entry price and a
\* higher box that is APPROACHING or FRESH BREAKOUT; no candidate belongs to
\* an open position without an entry price; each candidate carries the entry
\* price, the quantity and the gain of the ceiling over the entry price
C14_AddCandidatesIff ==
    add_candidates.returned =>
        /\ \A sym \in Symbols :
              sym \in CandidateSymbols
                  <=> \E k \in 1..Len(wl) :
                         wl[k].symbol = sym /\ HigherBoxAboveEntry(wl[k])
        /\ \A k \in 1..Len(wl) :
              (wl[k].status = "POSITION OPEN" /\ wl[k].entry_price = None)
                  => wl[k].symbol \notin CandidateSymbols
        /\ \A j \in 1..Len(add_candidates.value) :
              LET c == add_candidates.value[j]
              IN \E k \in 1..Len(wl) :
                    /\ wl[k].symbol = c.symbol
                    /\ c._add_orig_entry = wl[k].entry_price
                    /\ c._add_orig_qty = wl[k].qty
                    /\ c._add_orig_entry # None
                    /\ c._add_gain_pct * c._add_orig_entry
                           = (c.box_ceiling - c._add_orig_entry) * 1000

(***************************************************************************)
(* breeze_orders: qty_by_risk, build_order, place_basket                   *)
(*                                                                         *)
(* Prices and rupee amounts of an order are in paise; risk_per_trade is in *)
(* rupees, as in ORDER_CONFIG; entry_buffer_pct is in tenths of a percent; *)
(* rr is in hundredths.                                                    *)
(***************************************************************************)

\* ORDER_CONFIG, line 67
entry_buffer_pct == 3

\* lines 129-138
qty_by_riskNoFloor(entry, sl, max_risk_inr) ==
    IF entry - sl <= 0 THEN 1
    ELSE (max_risk_inr * 100) \div (entry - sl)

qty_by_riskRoundsUp(entry, sl, max_risk_inr) ==
    IF entry - sl <= 0 THEN 1
    ELSE Max(1, (max_risk_inr * 100 + (entry - sl) - 1) \div (entry - sl))

qty_by_risk(entry, sl, max_risk_inr) ==
    IF entry - sl <= 0 THEN 1
    ELSE Max(1, (max_risk_inr * 100) \div (entry - sl))

\* lines 154-203
build_order(r, cfg) ==
    LET entry  == r.box_ceiling
                      + RoundHalfEven(r.box_ceiling * entry_buffer_pct, 1000)
        qty    == qty_by_risk(entry, r.sl_price, cfg.risk_per_trade)
        risk   == (entry - r.sl_price) * qty
        reward == (r.mm_target - entry) * qty
    IN [symbol       |-> r.symbol,
        alert_tier   |-> r.alert_tier,
        ceiling      |-> r.box_ceiling,
        entry_price  |-> entry,
        sl_price     |-> r.sl_price,
        target_price |-> r.mm_target,
        quantity     |-> qty,
        capital_inr  |-> entry * qty,
        risk_inr     |-> risk,
        reward_inr   |-> reward,
        rr           |-> IF risk > 0 THEN RoundHalfEven(reward * 100, risk)
                         ELSE 0,
        order_id     |-> "",
        status       |-> "pending",
        error        |-> ""]

\* line 284: sorted(..., key=dist_to_ceil), a stable sort
RECURSIVE InsertByDist(_, _)
InsertByDist(sorted, r) ==
    IF sorted = << >> THEN << r >>
    ELSE IF Head(sorted).dist_to_ceil <= r.dist_to_ceil
    THEN << Head(sorted) >> \o InsertByDist(Tail(sorted), r)
    ELSE << r >> \o sorted

RECURSIVE SortByDist(_, _, _)
SortByDist(rs, k, sorted) ==
    IF k > Len(rs) THEN sorted
    ELSE SortByDist(rs, k + 1, InsertByDist(sorted, rs[k]))

\* lines 281-284: the safety cap
CappedUnsorted(rs, cfg) ==
    IF Len(rs) > cfg.max_orders_daily
    THEN SubSeq(rs, 1, cfg.max_orders_daily)
    ELSE rs

Capped(rs, cfg) ==
    IF Len(rs) > cfg.max_orders_daily
    THEN SubSeq(SortByDist(rs, 1, << >>), 1, cfg.max_orders_daily)
    ELSE rs

\* line 287
BuildOrders(rs, cfg) ==
    LET kept == Capped(rs, cfg)
    IN [k \in 1..Len(kept) |-> build_order(kept[k], cfg)]

\* line 222
RECURSIVE TotalRisk(_, _)
TotalRisk(os, k) ==
    IF k > Len(os) THEN 0 ELSE os[k].risk_inr + TotalRisk(os, k + 1)

\* the HOT results place_basket is given (lines 356-379 give two by hand): a
\* ceiling of 997.01 (entry 1000.00) with the stop at 950, at 970, at the
\* entry and above it, and a ceiling of 100000 with the stop at 90000
HotPrices ==
    { << 99701, 95000, 104701 >>, << 99701, 97000, 104701 >>,
      << 99701, 100000, 104701 >>, << 99701, 100500, 104701 >>,
      << 10000000, 9000000, 11000000 >> }

HotResult(sym, p, dist) ==
    [symbol       |-> sym,
     alert_tier   |-> "HOT",
     box_ceiling  |-> p[1],
     sl_price     |-> p[2],
     mm_target    |-> p[3],
     dist_to_ceil |-> dist]

HotResults ==
    { HotResult(sym, p, dist) :
        sym \in Symbols, p \in HotPrices, dist \in {3, 23} }

HotResultLists ==
    { rs \in UNION { [1..n -> HotResults] : n \in 0..Cardinality(Symbols) } :
        \A j, k \in 1..Len(rs) : rs[j].symbol = rs[k].symbol => j = k }

OrderConfigs ==
    [risk_per_trade : {5000, 40}, max_orders_daily : {1, 2}]

\* what breeze.place_order can do with an order: return a Success dict with an
\* order_id, return a dict with Success None and an Error text, or raise
SinkResponses == {"success", "error_response", "exception"}

\* place_basket is about to be called (darvas_scanner.py, lines 967-975)
OrdersInit ==
    /\ ob_pc = "idle"
    /\ hot_results \in HotResultLists
    /\ order_cfg \in OrderConfigs
    /\ dry_run \in BOOLEAN
    /\ orders = << >>
    /\ next_order = 1
    /\ connected = FALSE
    /\ sink_calls = << >>
    /\ order_log = << >>
    /\ single_qty = 0
    /\ wl = << >> /\ today = 0 /\ runs = 0 /\ scan_log = << >>
    /\ BoxIdle /\ ScanIdle /\ AddIdle /\ RunIdle

\* lines 276-278: nothing to place
NoHotResults ==
    /\ ob_pc = "idle"
    /\ hot_results = << >>
    /\ ob_pc' = "returned"
    /\ UNCHANGED << hot_results, order_cfg, dry_run, orders, next_order,
                    connected, sink_calls, order_log >>
    /\ UNCHANGED << boxvars, wlvars, scanvars, addvars, runvars,
                    single_qty >>

\* lines 280-290: cap, build, preview
BuildBasket ==
    /\ ob_pc = "idle"
    /\ hot_results # << >>
    /\ TotalRisk(BuildOrders(hot_results, order_cfg), 1) # 0
    /\ orders' = BuildOrders(hot_results, order_cfg)
    /\ ob_pc' = "built"
    /\ UNCHANGED << hot_results, order_cfg, dry_run, next_order,
                    connected, sink_calls, order_log >>
    /\ UNCHANGED << boxvars, wlvars, scanvars, addvars, runvars,
                    single_qty >>

\* lines 280-290, 240: the preview divides the total reward by the total
\* risk; a total risk of 0 raises ZeroDivisionError out of place_basket
PreviewRaises ==
    /\ ob_pc = "idle"
    /\ hot_results # << >>
    /\ TotalRisk(BuildOrders(hot_results, order_cfg), 1) = 0
    /\ orders' = BuildOrders(hot_results, order_cfg)
    /\ ob_pc' = "raised"
    /\ UNCHANGED << hot_results, order_cfg, dry_run, next_order,
                    connected, sink_calls, order_log >>
    /\ UNCHANGED << boxvars, wlvars, scanvars, addvars, runvars,
                    single_qty >>

\* lines 292-294
ReturnDryRun ==
    /\ ob_pc = "built"
    /\ dry_run
    /\ order_log' = Append(order_log, [tag |-> "DRYRUN", orders |-> orders])
    /\ ob_pc' = "returned"
    /\ UNCHANGED << hot_results, order_cfg, dry_run, orders, next_order,
                    connected, sink_calls >>
    /\ UNCHANGED << boxvars, wlvars, scanvars, addvars, runvars,
                    single_qty >>

\* line 298: connect_breeze returns a session
ConnectAnyMode ==
    /\ ob_pc = "built"
    /\ connected' = TRUE
    /\ ob_pc' = "placing"
    /\ UNCHANGED << hot_results, order_cfg, dry_run, orders, next_order,
                    sink_calls, order_log >>
    /\ UNCHANGED << boxvars, wlvars, scanvars, addvars, runvars,
                    single_qty >>

Connect ==
    /\ ob_pc = "built"
    /\ ~ dry_run
    /\ connected' = TRUE
    /\ ob_pc' = "placing"
    /\ UNCHANGED << hot_results, order_cfg, dry_run, orders, next_order,
                    sink_calls, order_log >>
    /\ UNCHANGED << boxvars, wlvars, scanvars, addvars, runvars,
                    single_qty >>

\* line 298, connect_breeze lines 96-120: the package or a credential is
\* missing, or the session is refused
ConnectRaises ==
    /\ ob_pc = "built"
    /\ ~ dry_run
    /\ ob_pc' = "raised"
    /\ UNCHANGED << hot_results, order_cfg, dry_run, orders, next_order,
                    connected, sink_calls, order_log >>
    /\ UNCHANGED << boxvars, wlvars, scanvars, addvars, runvars,
                    single_qty >>

\* lines 314-317 and 321-323: the order after the sink has answered
Recorded(o, response) ==
    CASE response = "success" ->
             [o EXCEPT !.order_id = "id", !.status = "PLACED"]
      [] response = "error_response" ->
             [o EXCEPT !.order_id = "", !.status = "PLACED"]
      [] response = "exception" ->
             [o EXCEPT !.status = "ERROR", !.error = "message"]

\* lines 300-324: one iteration of the submission loop
SubmitAbortsOnError ==
    /\ ob_pc = "placing"
    /\ next_order <= Len(orders)
    /\ \E response \in SinkResponses :
          /\ sink_calls' = Append(sink_calls,
                                  [stock_code |-> orders[next_order].symbol,
                                   response   |-> response])
          /\ orders' = [orders EXCEPT ![next_order] = Recorded(@, response)]
          /\ next_order' = IF response = "exception" THEN Len(orders) + 1
                           ELSE next_order + 1
    /\ UNCHANGED << ob_pc, hot_results, order_cfg, dry_run, connected,
                    order_log >>
    /\ UNCHANGED << boxvars, wlvars, scanvars, addvars, runvars,
                    single_qty >>

Submit ==
    /\ ob_pc = "placing"
    /\ next_order <= Len(orders)
    /\ \E response \in SinkResponses :
          /\ sink_calls' = Append(sink_calls,
                                  [stock_code |-> orders[next_order].symbol,
                                   response   |-> response])
          /\ orders' = [orders EXCEPT ![next_order] = Recorded(@, response)]
    /\ next_order' = next_order + 1
    /\ UNCHANGED << ob_pc, hot_results, order_cfg, dry_run, connected,
                    order_log >>
    /\ UNCHANGED << boxvars, wlvars, scanvars, addvars, runvars,
                    single_qty >>

\* lines 326-330: the loop is over
ReturnLive ==
    /\ ob_pc = "placing"
    /\ next_order > Len(orders)
    /\ order_log' = Append(order_log, [tag |-> "LIVE", orders |-> orders])
    /\ ob_pc' = "returned"
    /\ UNCHANGED << hot_results, order_cfg, dry_run, orders, next_order,
                    connected, sink_calls >>
    /\ UNCHANGED << boxvars, wlvars, scanvars, addvars, runvars,
                    single_qty >>

place_basket ==
    \/ NoHotResults
    \/ BuildBasket
    \/ PreviewRaises
    \/ ReturnDryRun
    \/ Connect
    \/ ConnectRaises
    \/ Submit
    \/ ReturnLive

SpecOrders == OrdersInit /\ [][place_basket]_vars

(***************************************************************************)
(* Properties of qty_by_risk, build_order and place_basket                 *)
(***************************************************************************)

\* floor(maxRisk / (entry - stopLoss)) of an order with a positive risk per
\* share, the risk limit being in rupees and the prices in paise
FloorQuantity(o) ==
    (order_cfg.risk_per_trade * 100) \div (o.entry_price - o.sl_price)

\* the orders the sink has been asked to place
Submitted == 1..(next_order - 1)

C16_RiskWithinLimit ==
    \A k \in 1..Len(orders) :
        (orders[k].entry_price - orders[k].sl_price) * orders[k].quantity
            <= order_cfg.risk_per_trade * 100

C18_DryRunPlacesNothing ==
    /\ dry_run =>
          /\ ~ connected
          /\ sink_calls = << >>
          /\ ob_pc \notin {"placing"}
          /\ \A k \in 1..Len(orders) :
                /\ orders[k].status = "pending"
                /\ orders[k].order_id = ""
                /\ orders[k].error = ""
    /\ \A k \in 1..Len(orders) :
          (\/ orders[k].status # "pending"
           \/ orders[k].order_id # ""
           \/ orders[k].error # "")
              => (~ dry_run /\ connected /\ k \in Submitted)

\* a dry run that has returned two orders
C18_Witness ==
    /\ dry_run
    /\ ob_pc = "returned"
    /\ Len(orders) = 2
    /\ order_log # << >>

\* C19: in a live run the orders are handed to the sink once each, in basket
\* order; an exception marks that order, and only that order, ERROR with the
\* message; the orders after it are still submitted; when place_basket
\* returns every order is PLACED or ERROR
C19_EveryOrderAttempted ==
    (~ dry_run /\ ob_pc \in {"placing", "returned"} /\ orders # << >>) =>
        /\ Len(sink_calls) = next_order - 1
        /\ next_order <= Len(orders) + 1
        /\ \A k \in Submitted :
              /\ sink_calls[k].stock_code = orders[k].symbol
              /\ orders[k].status \in {"PLACED", "ERROR"}
              /\ orders[k].status = "ERROR"
                    <=> sink_calls[k].response = "exception"
              /\ orders[k].status = "ERROR" => orders[k].error = "message"
              /\ orders[k].status = "PLACED" => orders[k].error = ""
        /\ \A k \in 1..Len(orders) :
              k \notin Submitted =>
                  orders[k] = BuildOrders(hot_results, order_cfg)[k]
        /\ ob_pc = "returned" =>
              /\ Len(sink_calls) = Len(orders)
              /\ \A k \in 1..Len(orders) :
                    orders[k].status \in {"PLACED", "ERROR"}

\* a live run has returned after the first of two submissions raised
C19_Witness ==
    /\ ~ dry_run
    /\ ob_pc = "returned"
    /\ Len(orders) = 2
    /\ orders[1].status = "ERROR"
    /\ orders[2].status = "PLACED"

\* C20 as stated: an order for which the sink returned an error response is
\* recorded as failed with the error text, and an order is PLACED only
\* together with the identifier the sink returned
C20_SinkOutcomeRecorded ==
    (~ dry_run /\ ob_pc \in {"placing", "returned"}) =>
        \A k \in Submitted :
            /\ sink_calls[k].response = "error_response" =>
                  orders[k].status = "ERROR" /\ orders[k].error # ""
            /\ orders[k].status = "PLACED" =>
                  /\ sink_calls[k].response = "success"
                  /\ orders[k].order_id = "id"

\* the results of the call whose symbol has an order, and those without one
KeptResults ==
    { k \in 1..Len(hot_results) :
        \E j \in 1..Len(orders) : orders[j].symbol = hot_results[k].symbol }

DroppedResults == (1..Len(hot_results)) \ KeptResults

\* C21: place_basket never builds more than max_orders_daily orders; when
\* there are more candidates than the cap, every candidate left out is at
\* least as far from its ceiling as every candidate kept
C21_CapKeepsClosest ==
    ob_pc # "idle" =>
        /\ Len(orders) <= order_cfg.max_orders_daily
        /\ \A j \in 1..Len(orders) :
              \E k \in 1..Len(hot_results) :
                  /\ hot_results[k].symbol = orders[j].symbol
                  /\ j \notin Submitted =>
                        orders[j] = build_order(hot_results[k], order_cfg)
        /\ Len(hot_results) > order_cfg.max_orders_daily =>
              /\ Len(orders) = order_cfg.max_orders_daily
              /\ \A d \in DroppedResults : \A k \in KeptResults :
                    hot_results[d].dist_to_ceil >= hot_results[k].dist_to_ceil

\* two candidates under a cap of one, the second one closer to its ceiling:
\* the order built is the second candidate's
C21_Witness ==
    /\ ob_pc = "built"
    /\ Len(hot_results) = 2
    /\ order_cfg.max_orders_daily = 1
    /\ hot_results[1].dist_to_ceil > hot_results[2].dist_to_ceil
    /\ Len(orders) = 1
    /\ orders[1].symbol = hot_results[2].symbol

\* C22 as stated: once a batch that built a non-empty list of orders has
\* ended, by returning or by raising, the order log holds a record with every
\* built order and its final outcome
C22_AuditLogWritten ==
    (ob_pc \in {"returned", "raised"} /\ orders # << >>) =>
        \E k \in 1..Len(order_log) : order_log[k].orders = orders

(***************************************************************************)
(* analyse: the forming box, and a close below the floor of the box        *)
(***************************************************************************)

\* the two remaining confirmation gaps of the box handed to analyse
CeilGap  == ceil_bars - box.ceil_conf
FloorGap == floor_bars - box.floor_conf

\* analyse has returned a result for a box that is not confirmed
Forming == result # NoResult /\ box.box_ceiling = None

\* C29 as stated: with no confirmed box the status is BOX FORMING and
\* weeks-to-confirm is the smaller of the two remaining gaps
C29_WeeksIsSmallerGap ==
    Forming =>
        /\ result.status = "BOX FORMING"
        /\ result.weeks_to_confirm = IF CeilGap <= FloorGap THEN CeilGap
                                     ELSE FloorGap

\* C29, amended: with no confirmed box the status is BOX FORMING and
\* weeks-to-confirm is the larger of the two remaining gaps; thresholds 3 and
\* 3 with counters 3 and 1 give 2.  A confirmed box never gives BOX FORMING.
C29_WeeksIsLargerGap ==
    /\ Forming =>
          /\ result.status = "BOX FORMING"
          /\ result.weeks_to_confirm = Max(CeilGap, FloorGap)
          /\ result.weeks_to_confirm >= CeilGap
          /\ result.weeks_to_confirm >= FloorGap
          /\ (/\ ceil_bars = 3 /\ floor_bars = 3
              /\ box.ceil_conf = 3 /\ box.floor_conf = 1) =>
                 result.weeks_to_confirm = 2
    /\ (result # NoResult /\ result.status = "BOX FORMING") =>
          box.box_ceiling = None

\* the ceiling is confirmed and the floor is two weeks short
C29_Witness ==
    /\ Forming
    /\ ceil_bars = 3 /\ floor_bars = 3
    /\ box.ceil_conf = 3 /\ box.floor_conf = 1
    /\ result.weeks_to_confirm = 2

\* run_scan, lines 747-754: the result of analyse as merge_into_watchlist
\* reads it (lines 610-657).  box_conf_date is not among the values analyse is
\* given here, so days_in_box is None (line 346).
AsScanResult(sym, r, src) ==
    [symbol        |-> sym,
     status        |-> r.status,
     box_ceiling   |-> r.box_ceiling,
     box_floor     |-> r.box_floor,
     box_width_pct |-> r.box_width_pct,
     sl_price      |-> r.sl_price,
     mm_target     |-> r.mm_target,
     days_in_box   |-> None,
     source        |-> src]

\* the latest close is below the floor of the confirmed box
BoxFailed == box.box_ceiling # None /\ daily.close < box.box_floor

\* the watchlists the run may have loaded: without the symbol, and with the
\* symbol as an earlier run left it
WatchlistsOfA ==
    { << >> } \cup { << StoredRow("A", st, 0) >> :
                        st \in {"APPROACHING", "WATCHING", "BOX FORMING"} }

\* C27 as stated: when analyse has classified a symbol whose close is below
\* the floor of its confirmed box, the watchlist the run merges and saves
\* does not hold the symbol
C27_FailedBoxRemoved ==
    (result # NoResult /\ BoxFailed) =>
        \A w \in WatchlistsOfA :
            ~ Exists(merge_into_watchlist(
                         w, << AsScanResult("A", result, "chartink") >>, today),
                     "A")

(***************************************************************************)
(* merge_into_watchlist: the frame of the in-place update                  *)
(***************************************************************************)

\* C30: the in-place update of an existing unprotected row by an APPROACHING
\* or WATCHING result leaves symbol, date_added, source, box_width_pct,
\* entry_price, qty and notes of the row as they were: the row differs from
\* its previous value in no field other than prev_status, status,
\* box_ceiling, box_floor, sl_price, mm_target, days_in_box and date_updated.
\* A row with a readable date_added comes out of the whole merge as the
\* update left it.
C30_UpdateFrame ==
    \A r \in TrackedResults :
        (Unprotected(wl, r.symbol) /\ r.symbol \in SymbolsOf(wl)) =>
            LET k  == RowOf(wl, r.symbol)
                e  == wl[k]
                u  == ApplyResult(wl, r, today)[k]
                w2 == merge_into_watchlist(wl, << r >>, today)
            IN /\ DOMAIN u = DOMAIN e
               /\ u.date_added = e.date_added
               /\ u.source = e.source
               /\ u.box_width_pct = e.box_width_pct
               /\ u.entry_price = e.entry_price
               /\ u.qty = e.qty
               /\ u.notes = e.notes
               /\ u = [e EXCEPT !.prev_status  = u.prev_status,
                                !.status       = u.status,
                                !.box_ceiling  = u.box_ceiling,
                                !.box_floor    = u.box_floor,
                                !.sl_price     = u.sl_price,
                                !.mm_target    = u.mm_target,
                                !.days_in_box  = u.days_in_box,
                                !.date_updated = u.date_updated]
               /\ e.date_added >= 0 =>
                     \A j \in 1..Len(w2) :
                         w2[j].symbol = r.symbol => w2[j] = u

\* a day after it was added, a row of the watchlist has been updated by an
\* APPROACHING result: it carries the box of the result and the width, the
\* source and the date_added it had
C30_Witness ==
    /\ runs >= 1
    /\ today = 1
    /\ \E k \in 1..Len(wl) :
          /\ wl[k].status = "APPROACHING"
          /\ wl[k].date_updated = 1
          /\ wl[k].date_added = 0
          /\ wl[k].box_ceiling
                 = ScanResult(wl[k].symbol, "APPROACHING").box_ceiling
          /\ wl[k].box_width_pct = BoxMetrics(3).box_width_pct
          /\ wl[k].box_width_pct
                 # ScanResult(wl[k].symbol, "APPROACHING").box_width_pct

(***************************************************************************)
(* main and run_scan: scanner processes that share watchlist.csv           *)
(*                                                                         *)
(* Each process runs main once: run_scan loads the watchlist, analyses     *)
(* every symbol, annotates and sorts the results, merges them into the     *)
(* watchlist in memory, saves the watchlist and the scan; main then hands  *)
(* the HOT results to place_basket.  The steps of a process between two    *)
(* accesses of watchlist.csv are taken together.                           *)
(***************************************************************************)

\* main, lines 940-951: the symbols of --symbols or --file
chartink_symbols == << "A" >>

\* main, lines 968-969: ORDER_CONFIG (breeze_orders.py, lines 65-79) with the
\* default of --risk
MainOrderConfig == [risk_per_trade |-> 5000, max_orders_daily |-> 5]

\* line 106
STATUS_PRIORITY(st) ==
    CASE st = "FRESH BREAKOUT" -> 0
      [] st = "APPROACHING"    -> 1
      [] st = "WATCHING"       -> 2
      [] st = "BOX FORMING"    -> 3
      [] st = "NO BOX"         -> 4
      [] OTHER                 -> 9

\* lines 685, 696-697: upgrade_map.get(..., 9); a blank prev_status cell is
\* NaN, and str(NaN) is not a key
upgrade_map(st) ==
    CASE st = "FRESH BREAKOUT" -> 0
      [] st = "APPROACHING"    -> 1
      [] st = "WATCHING"       -> 2
      [] st = "BOX FORMING"    -> 3
      [] OTHER                 -> 9

\* lines 687-703: the note and the flag of one result
Annotated(r, w) ==
    IF ~ Exists(w, r.symbol)
    THEN [r EXCEPT !._note = "NEW", !._upgraded = FALSE]
    ELSE LET prev == w[RowOf(w, r.symbol)].prev_status
         IN IF upgrade_map(r.status) < upgrade_map(prev)
            THEN [r EXCEPT !._note = "UPGRADED", !._upgraded = TRUE]
            ELSE [r EXCEPT !._note = "", !._upgraded = FALSE]

\* lines 677-704
annotate_status_changes(rs, w) ==
    IF Len(w) = 0 THEN rs
    ELSE [k \in 1..Len(rs) |-> Annotated(rs[k], w)]

\* lines 765-769: the sort key, compared as a tuple
SortKey(r) ==
    << IF r._upgraded THEN 0 ELSE 1,
       STATUS_PRIORITY(r.status),
       IF r.dist_to_ceil # None THEN r.dist_to_ceil ELSE 999 >>

KeyLessEq(a, b) ==
    \/ a[1] < b[1]
    \/ a[1] = b[1] /\ a[2] < b[2]
    \/ a[1] = b[1] /\ a[2] = b[2] /\ a[3] <= b[3]

\* line 765: list.sort is stable
RECURSIVE InsertByKey(_, _)
InsertByKey(sorted, r) ==
    IF sorted = << >> THEN << r >>
    ELSE IF KeyLessEq(SortKey(Head(sorted)), SortKey(r))
    THEN << Head(sorted) >> \o InsertByKey(Tail(sorted), r)
    ELSE << r >> \o sorted

RECURSIVE SortResults(_, _, _)
SortResults(rs, k, sorted) ==
    IF k > Len(rs) THEN sorted
    ELSE SortResults(rs, k + 1, InsertByKey(sorted, rs[k]))

\* lines 728-731: the chartink symbols, then the symbols of the watchlist, each
\* once
RECURSIVE Dedupe(_, _)
Dedupe(syms, acc) ==
    IF syms = << >> THEN acc
    ELSE IF \E k \in 1..Len(acc) : acc[k] = Head(syms)
    THEN Dedupe(Tail(syms), acc)
    ELSE Dedupe(Tail(syms), Append(acc, Head(syms)))

all_symbols(w) ==
    Dedupe(chartink_symbols \o [k \in 1..Len(w) |-> w[k].symbol], << >>)

\* what analyse can return for a symbol (lines 750-754): a result of one of
\* the four statuses, an APPROACHING one with tier HOT or WATCH; dist_to_ceil
\* in tenths of a percent
RunOutcomes ==
    {"FRESH BREAKOUT", "HOT", "APPROACHING", "WATCHING", "BOX FORMING"}

RunResult(sym, o) ==
    LET r == ScanResult(sym, IF o = "HOT" THEN "APPROACHING" ELSE o)
    IN [symbol        |-> sym,
        status        |-> r.status,
        alert_tier    |-> CASE o = "HOT" -> "HOT"
                            [] o = "APPROACHING" -> "WATCH"
                            [] OTHER -> "",
        box_ceiling   |-> r.box_ceiling,
        box_floor     |-> r.box_floor,
        box_width_pct |-> r.box_width_pct,
        dist_to_ceil  |-> CASE o = "FRESH BREAKOUT" -> -10
                            [] o = "HOT" -> 10
                            [] o = "APPROACHING" -> 50
                            [] o = "WATCHING" -> 150
                            [] OTHER -> None,
        sl_price      |-> r.sl_price,
        mm_target     |-> r.mm_target,
        days_in_box   |-> r.days_in_box,
        source        |-> r.source,
        _note         |-> "",
        _upgraded     |-> FALSE]

\* main, line 955
HotStocks(rs) == LET IsHot(r) == r.alert_tier = "HOT" IN SelectSeq(rs, IsHot)

\* the watchlists a process can find in watchlist.csv: a row of A written by
\* an earlier run, a row of A typed in by the user with prev_status left
\* blank, an open position in B with qty left blank
RunWatchlists ==
    { << [StoredRow("A", "WATCHING", 0) EXCEPT !.prev_status = pv] >> :
         pv \in {"WATCHING", ""} }
    \cup { << [StoredRow("B", "POSITION OPEN", 0) EXCEPT !.qty = None] >> }

\* watchlist.csv when the first process starts (load_watchlist, lines
\* 516-523): no file; a table with the watchlist columns; a file read_csv
\* raises on (empty, binary, ragged lines); a file read_csv parses into a
\* frame with at least one row and no symbol column (another delimiter, a
\* damaged header line)
StoredFiles ==
    { [kind |-> k, rows |-> << >>] :
         k \in {"absent", "unparsable", "misshapen"} }
    \cup { [kind |-> "table", rows |-> w] : w \in RunWatchlists }

\* lines 518-523: what load_watchlist returns, for a file with a symbol column
\* or none at all
load_watchlist(f) == IF f.kind = "table" THEN f.rows ELSE << >>

\* both processes have been started
RunInit ==
    /\ store \in StoredFiles
    /\ rpc = [p \in Procs |-> "start"]
    /\ rwl = [p \in Procs |-> << >>]
    /\ rmerged = [p \in Procs |-> << >>]
    /\ rtodo = [p \in Procs |-> << >>]
    /\ rresults = [p \in Procs |-> << >>]
    /\ reads = [p \in Procs |-> 0]
    /\ writes = [p \in Procs |-> 0]
    /\ scan_saved = [p \in Procs |-> FALSE]
    /\ wl = << >> /\ today = 0 /\ runs = 0 /\ scan_log = << >>
    /\ BoxIdle /\ ScanIdle /\ AddIdle /\ OrdersIdle

\* lines 727-731: the watchlist is loaded and the symbols are listed
Load(p) ==
    /\ rpc[p] = "start"
    /\ store.kind # "misshapen"
    /\ rwl' = [rwl EXCEPT ![p] = load_watchlist(store)]
    /\ rtodo' = [rtodo EXCEPT ![p] = all_symbols(load_watchlist(store))]
    /\ reads' = [reads EXCEPT ![p] = @ + 1]
    /\ rpc' = [rpc EXCEPT ![p] = "analysing"]
    /\ UNCHANGED << store, rmerged, rresults, writes, scan_saved >>
    /\ UNCHANGED << boxvars, wlvars, scanvars, addvars, ordvars >>

\* lines 727-728: read_csv returns a frame with rows and no symbol column;
\* wl["symbol"] raises KeyError out of run_scan
LoadRaises(p) ==
    /\ rpc[p] = "start"
    /\ store.kind = "misshapen"
    /\ reads' = [reads EXCEPT ![p] = @ + 1]
    /\ rpc' = [rpc EXCEPT ![p] = "KeyError"]
    /\ UNCHANGED << store, rwl, rmerged, rtodo, rresults, writes, scan_saved >>
    /\ UNCHANGED << boxvars, wlvars, scanvars, addvars, ordvars >>

\* lines 745-757: one iteration of the loop over all_symbols; analyse returns
\* a result or None
AnalyseNextAndSave(p) ==
    /\ rpc[p] = "analysing"
    /\ rtodo[p] # << >>
    /\ \E o \in RunOutcomes \cup {"skip"} :
          rresults' = [rresults EXCEPT ![p] =
                          IF o = "skip" THEN @
                          ELSE Append(@, RunResult(Head(rtodo[p]), o))]
    /\ rtodo' = [rtodo EXCEPT ![p] = Tail(@)]
    /\ store' = [kind |-> "table",
                 rows |-> merge_into_watchlist(rwl[p], rresults'[p], today)]
    /\ UNCHANGED << rpc, rwl, rmerged, reads, writes, scan_saved >>
    /\ UNCHANGED << boxvars, wlvars, scanvars, addvars, ordvars >>

AnalyseNext(p) ==
    /\ rpc[p] = "analysing"
    /\ rtodo[p] # << >>
    /\ \E o \in RunOutcomes \cup {"skip"} :
          rresults' = [rresults EXCEPT ![p] =
                          IF o = "skip" THEN @
                          ELSE Append(@, RunResult(Head(rtodo[p]), o))]
    /\ rtodo' = [rtodo EXCEPT ![p] = Tail(@)]
    /\ UNCHANGED << store, rpc, rwl, rmerged, reads, writes, scan_saved >>
    /\ UNCHANGED << boxvars, wlvars, scanvars, addvars, ordvars >>

\* lines 762-769: the results annotated against the loaded watchlist, sorted
Reported(p) ==
    SortResults(annotate_status_changes(rresults[p], rwl[p]), 1, << >>)

\* lines 762-847: annotate, sort, print, check_add_candidates, merge in memory
AnnotateAndMerge(p) ==
    /\ rpc[p] = "analysing"
    /\ rtodo[p] = << >>
    /\ check_add_candidates(Reported(p), rwl[p]).raised = ""
    /\ rresults' = [rresults EXCEPT ![p] = Reported(p)]
    /\ rmerged' = [rmerged EXCEPT ![p] =
                      merge_into_watchlist(rwl[p], Reported(p), today)]
    /\ rpc' = [rpc EXCEPT ![p] = "merged"]
    /\ UNCHANGED << store, rwl, rtodo, reads, writes, scan_saved >>
    /\ UNCHANGED << boxvars, wlvars, scanvars, addvars, ordvars >>

\* lines 762-815: check_add_candidates raises out of run_scan
CheckAddRaises(p) ==
    /\ rpc[p] = "analysing"
    /\ rtodo[p] = << >>
    /\ check_add_candidates(Reported(p), rwl[p]).raised # ""
    /\ rpc' = [rpc EXCEPT ![p] = "ValueError"]
    /\ rwl' = [rwl EXCEPT ![p] = << >>]
    /\ rresults' = [rresults EXCEPT ![p] = << >>]
    /\ UNCHANGED << store, rmerged, rtodo, reads, writes, scan_saved >>
    /\ UNCHANGED << boxvars, wlvars, scanvars, addvars, ordvars >>

\* line 848, save_watchlist lines 526-529
SaveWatchlist(p) ==
    /\ rpc[p] = "merged"
    /\ store' = [kind |-> "table", rows |-> rmerged[p]]
    /\ writes' = [writes EXCEPT ![p] = @ + 1]
    /\ rpc' = [rpc EXCEPT ![p] = "saved"]
    /\ UNCHANGED << rwl, rmerged, rtodo, rresults, reads, scan_saved >>
    /\ UNCHANGED << boxvars, wlvars, scanvars, addvars, ordvars >>

\* lines 851-861: the scan is saved when there is a result; run_scan returns
SaveScanAndReturn(p) ==
    /\ rpc[p] = "saved"
    /\ scan_saved' = [scan_saved EXCEPT ![p] = rresults[p] # << >>]
    /\ rwl' = [rwl EXCEPT ![p] = << >>]
    /\ rmerged' = [rmerged EXCEPT ![p] = << >>]
    /\ rpc' = [rpc EXCEPT ![p] = "returned"]
    /\ UNCHANGED << store, rtodo, rresults, reads, writes >>
    /\ UNCHANGED << boxvars, wlvars, scanvars, addvars, ordvars >>

\* the process is stopped from outside while run_scan is running
Abort(p) ==
    /\ rpc[p] \in {"start", "analysing", "merged", "saved"}
    /\ rpc' = [rpc EXCEPT ![p] = "aborted"]
    /\ rwl' = [rwl EXCEPT ![p] = << >>]
    /\ rmerged' = [rmerged EXCEPT ![p] = << >>]
    /\ rtodo' = [rtodo EXCEPT ![p] = << >>]
    /\ rresults' = [rresults EXCEPT ![p] = << >>]
    /\ UNCHANGED << store, reads, writes, scan_saved >>
    /\ UNCHANGED << boxvars, wlvars, scanvars, addvars, ordvars >>

\* main, lines 954-959: no --auto-order, or no HOT result
NoAutoOrder(p) ==
    /\ rpc[p] = "returned"
    /\ rpc' = [rpc EXCEPT ![p] = "done"]
    /\ rresults' = [rresults EXCEPT ![p] = << >>]
    /\ UNCHANGED << store, rwl, rmerged, rtodo, reads, writes, scan_saved >>
    /\ UNCHANGED << boxvars, wlvars, scanvars, addvars, ordvars >>

\* main, lines 954-975, before run_scan has saved
StartAutoOrderBeforeSave(p) ==
    /\ rpc[p] = "merged"
    /\ HotStocks(rresults[p]) # << >>
    /\ ob_pc = "idle" /\ hot_results = << >>
    /\ hot_results' = HotStocks(rresults[p])
    /\ order_cfg' = MainOrderConfig
    /\ dry_run' \in BOOLEAN
    /\ rpc' = [rpc EXCEPT ![p] = "ordering"]
    /\ rresults' = [rresults EXCEPT ![p] = << >>]
    /\ UNCHANGED << store, rwl, rmerged, rtodo, reads, writes, scan_saved >>
    /\ UNCHANGED << ob_pc, orders, next_order, connected, sink_calls,
                    order_log, single_qty >>
    /\ UNCHANGED << boxvars, wlvars, scanvars, addvars >>

\* main, lines 954-975: --auto-order with a HOT result: place_basket is
\* called, in a dry run or with --live.  One of the processes was started
\* with --auto-order.
StartAutoOrder(p) ==
    /\ rpc[p] = "returned"
    /\ HotStocks(rresults[p]) # << >>
    /\ ob_pc = "idle" /\ hot_results = << >>
    /\ hot_results' = HotStocks(rresults[p])
    /\ order_cfg' = MainOrderConfig
    /\ dry_run' \in BOOLEAN
    /\ rpc' = [rpc EXCEPT ![p] = "ordering"]
    /\ rresults' = [rresults EXCEPT ![p] = << >>]
    /\ UNCHANGED << store, rwl, rmerged, rtodo, reads, writes, scan_saved >>
    /\ UNCHANGED << ob_pc, orders, next_order, connected, sink_calls,
                    order_log, single_qty >>
    /\ UNCHANGED << boxvars, wlvars, scanvars, addvars >>

\* main, line 975: place_basket has returned
AutoOrderReturns(p) ==
    /\ rpc[p] = "ordering"
    /\ ob_pc = "returned"
    /\ rpc' = [rpc EXCEPT ![p] = "done"]
    /\ UNCHANGED << store, rwl, rmerged, rtodo, rresults, reads, writes,
                    scan_saved >>
    /\ UNCHANGED << boxvars, wlvars, scanvars, addvars, ordvars >>

\* main, line 971: the exception of place_basket leaves main
AutoOrderRaises(p) ==
    /\ rpc[p] = "ordering"
    /\ ob_pc = "raised"
    /\ rpc' = [rpc EXCEPT ![p] = "order_failed"]
    /\ UNCHANGED << store, rwl, rmerged, rtodo, rresults, reads, writes,
                    scan_saved >>
    /\ UNCHANGED << boxvars, wlvars, scanvars, addvars, ordvars >>

\* main calls place_basket with the HOT results only, so the list is not
\* empty; the boxes RunResult draws give every order a stop below its entry
\* (the HOT result of a box at 0.10 is taken up under SpecAnalyse)
RunNext ==
    \/ \E p \in Procs : Load(p)
    \/ \E p \in Procs : LoadRaises(p)
    \/ \E p \in Procs : AnalyseNext(p)
    \/ \E p \in Procs : AnnotateAndMerge(p)
    \/ \E p \in Procs : CheckAddRaises(p)
    \/ \E p \in Procs : SaveWatchlist(p)
    \/ \E p \in Procs : SaveScanAndReturn(p)
    \/ \E p \in Procs : Abort(p)
    \/ \E p \in Procs : NoAutoOrder(p)
    \/ \E p \in Procs : StartAutoOrder(p)
    \/ \E p \in Procs : AutoOrderReturns(p)
    \/ \E p \in Procs : AutoOrderRaises(p)
    \/ BuildBasket
    \/ ReturnDryRun
    \/ Connect
    \/ ConnectRaises
    \/ Submit
    \/ ReturnLive

SpecRun == RunInit /\ [][RunNext]_vars

(***************************************************************************)
(* Properties of run_scan and main                                         *)
(***************************************************************************)

\* run_scan has not returned and has not been left
Running(p) == rpc[p] \in {"start", "analysing", "merged", "saved"}

\* the process has saved the watchlist
Saved(p) == rpc[p] \in {"saved", "returned", "ordering", "done", "order_failed"}

C24_Counts ==
    \A p \in Procs :
        /\ reads[p] \in {0, 1} /\ writes[p] \in {0, 1}
        /\ rpc[p] = "start" => reads[p] = 0
        /\ rpc[p] \notin {"start", "aborted"} => reads[p] = 1
        /\ (rresults[p] # << >> \/ rtodo[p] # << >>) => reads[p] = 1
        /\ Saved(p) => writes[p] = 1
        /\ rpc[p] \in {"start", "analysing", "merged", "KeyError",
                       "ValueError"} => writes[p] = 0
        /\ writes[p] = 1 => reads[p] = 1 /\ rtodo[p] = << >>

C24_Accesses ==
    /\ \A p \in Procs :
          reads'[p] # reads[p] =>
              /\ rpc[p] = "start"
              /\ rresults[p] = << >>
    /\ \A p \in Procs :
          writes'[p] # writes[p] =>
              /\ rpc[p] = "merged" /\ rpc'[p] = "saved"
              /\ rtodo[p] = << >>
              /\ store' = [kind |-> "table",
                           rows |-> merge_into_watchlist(
                                        rwl[p], rresults[p], today)]
    /\ store' # store =>
          \E p \in Procs : rpc[p] = "merged" /\ writes'[p] = writes[p] + 1

\* C24: a process reads watchlist.csv once, before it analyses a symbol, and
\* writes it once, after the last symbol was analysed and with the merge of
\* what it read and its results; a process that has returned from run_scan
\* has done both; the file changes in no other step, so a process stopped or
\* left by an exception before its write leaves the file as it was
C24_ReadOnceWriteOnce == [] C24_Counts /\ [][C24_Accesses]_vars

\* one process was stopped after it had analysed a symbol, the file still as
\* it was found; the other is about to save
C24_Witness ==
    \E p, q \in Procs :
        /\ rpc[p] = "aborted" /\ reads[p] = 1 /\ writes[p] = 0
        /\ rpc[q] = "merged" /\ reads[q] = 1 /\ writes[q] = 0
        /\ store \in StoredFiles
        /\ rmerged[q] # load_watchlist(store)

\* C25 as stated, through its consequence: the runs do not interleave their
\* read and write of watchlist.csv, so a process that writes the file finds
\* in it what it read
C25_NoInterleavedRuns ==
    [][\A p \in Procs :
          (rpc[p] = "merged" /\ rpc'[p] = "saved") =>
              load_watchlist(store) = rwl[p]]_vars

\* C26 as stated: whatever is wrong with watchlist.csv, no process leaves
\* run_scan through the load; it goes on with an empty watchlist
C26_CorruptWatchlistLoadsEmpty ==
    \A p \in Procs :
        /\ rpc[p] # "KeyError"
        /\ reads[p] = 1 => rpc[p] # "start"

\* the order FRESH BREAKOUT < APPROACHING < WATCHING < BOX FORMING
SeverityOrder ==
    << "FRESH BREAKOUT", "APPROACHING", "WATCHING", "BOX FORMING" >>

MoreAdvanced(curr, prev) ==
    \E j, k \in 1..Len(SeverityOrder) :
        /\ SeverityOrder[j] = curr
        /\ SeverityOrder[k] = prev
        /\ j < k

WithFlags(rs, flag) == [k \in 1..Len(rs) |-> [rs[k] EXCEPT !._upgraded = flag]]

\* C28 as stated: a result is marked upgraded iff the loaded watchlist has an
\* entry of its symbol and its status is strictly more advanced than the
\* prev_status of the entry; the merge gives the same watchlist whatever the
\* flags are
C28_UpgradedIffMoreAdvanced ==
    \A p \in Procs :
        rpc[p] = "merged" =>
            /\ \A k \in 1..Len(rresults[p]) :
                  LET r == rresults[p][k]
                  IN r._upgraded <=>
                        /\ Exists(rwl[p], r.symbol)
                        /\ MoreAdvanced(
                               r.status,
                               rwl[p][RowOf(rwl[p], r.symbol)].prev_status)
            /\ \A flag \in BOOLEAN :
                  rmerged[p] = merge_into_watchlist(
                                   rwl[p], WithFlags(rresults[p], flag), today)

\* C23: when place_basket is left by the exception of connect_breeze, and
\* when that exception leaves main, place_order was not called and no order
\* carries an outcome, and the process has written the watchlist and its scan
C23_ConnectFailsAfterPersist ==
    \A p \in Procs :
        (rpc[p] \in {"ordering", "order_failed"} /\ ob_pc = "raised") =>
            /\ ~ dry_run
            /\ sink_calls = << >>
            /\ ~ connected
            /\ \A k \in 1..Len(orders) : orders[k].status = "pending"
            /\ reads[p] = 1 /\ writes[p] = 1
            /\ scan_saved[p]
            /\ store.kind = "table"

\* main has been left by the exception of connect_breeze, two orders built
C23_Witness ==
    \E p \in Procs :
        /\ rpc[p] = "order_failed"
        /\ ob_pc = "raised"
        /\ Len(orders) = 2

(***************************************************************************)
(* analyse and run_scan: a box that is too wide                            *)
(***************************************************************************)

\* the confirmed box handed to analyse is wider than max_box_width
BoxTooWide == box.box_ceiling # None /\ TooWide(box)

\* C31 as stated: a symbol whose confirmed box is wider than max_box_width
\* gets no result and is not put among the skipped symbols of the run
C31_TooWideSilentlyExcluded ==
    BoxTooWide => (result = NoResult /\ errors = << >>)

(***************************************************************************)
(* detect_box: the counters at the return, the levels at every step        *)
(***************************************************************************)

\* lines 265-273: the dict detect_box returns, as analyse reads it
ReturnedBox ==
    [box_ceiling |-> box_ceiling, box_floor |-> box_floor,
     pending_ceil |-> pending_ceil, pending_floor |-> pending_floor,
     ceil_conf |-> ceil_conf, floor_conf |-> floor_conf]

\* analyse, lines 309-331: the weeks_to_confirm reported for the returned dict
WeeksToConfirm ==
    FormingResult(ReturnedBox, CHOOSE d \in Dailies : TRUE).weeks_to_confirm

\* C36: when detect_box returns, the two counters are not both at or above
\* their thresholds, so the weeks_to_confirm of a BOX FORMING result is at
\* least 1 and at most the larger threshold
C36_CountersNeverBothMet ==
    pc = "done" =>
        /\ ~ (ceil_conf >= ceil_bars /\ floor_conf >= floor_bars)
        /\ box_ceiling = None =>
              /\ WeeksToConfirm >= 1
              /\ WeeksToConfirm <= Max(ceil_bars, floor_bars)

\* detect_box has returned without a box, the ceiling counter above its
\* threshold and the floor counter short of its own
C36_Witness ==
    /\ pc = "done" /\ n_rows # None
    /\ box_ceiling = None
    /\ ceil_conf > ceil_bars
    /\ floor_conf < floor_bars
    /\ WeeksToConfirm = floor_bars - floor_conf

\* C37: after the tracking step of an iteration the pending ceiling is the
\* highest High and the pending floor the lowest Low of the rows from the
\* seed row through the previous row; after a confirmation both are those of
\* the confirming row; so the pending ceiling is never below the pending
\* floor and no confirmed box has its ceiling below its floor
C37_PendingIsSpanExtreme ==
    /\ span_high # None =>
          /\ pending_ceil = span_high
          /\ pending_floor = span_low
    /\ (span_high = None /\ pending_ceil # None) =>
          /\ pending_ceil = curr_high
          /\ pending_floor = curr_low
    /\ pending_ceil # None => pending_ceil >= pending_floor
    /\ box_ceiling # None => box_ceiling >= box_floor
    /\ \A k \in 1..Len(confirmations) :
          confirmations[k][1] >= confirmations[k][2]

\* after a confirmation, the previous row is the bar 4/4 and the span holds a
\* higher bar: the pending ceiling is the span's 10, not the previous High
C37_Witness ==
    /\ pc = "check"
    /\ box_ceiling # None
    /\ prev_high = 4
    /\ pending_ceil = 10 /\ span_high = 10
    /\ pending_floor = 4

(***************************************************************************)
(* merge_into_watchlist: one row per symbol, and the statuses it writes    *)
(***************************************************************************)

\* C34: a watchlist that starts with at most one row per symbol has at most
\* one row per symbol after every merge run, whatever the result list, a
\* list that names a symbol twice included
C34_OneRowPerSymbol ==
    \A sym \in Symbols : Cardinality(RowsOf(wl, sym)) <= 1

\* a run on an empty watchlist was handed two results of B: the first
\* created the row as WATCHING, the second updated it to APPROACHING
C34_Witness ==
    /\ runs >= 1
    /\ Len(wl) = 1
    /\ wl[1].symbol = "B"
    /\ wl[1].prev_status = "WATCHING"
    /\ wl[1].status = "APPROACHING"

\* the statuses a merge writes
WrittenStatuses == {"APPROACHING", "WATCHING", "BOX FORMING"}

\* row e of the watchlist w2 against the watchlist w it was made from: a row
\* of a symbol w did not hold is new; a row that differs from the one w held,
\* other than by the parsed date_added, was modified
IsNew(w, e) == ~ Exists(w, e.symbol)

IsModified(w, e) ==
    /\ Exists(w, e.symbol)
    /\ [e EXCEPT !.date_added = w[RowOf(w, e.symbol)].date_added]
          # w[RowOf(w, e.symbol)]

\* the loop body for one result: a row it creates is APPROACHING or WATCHING
\* with prev_status equal to status; a row it modifies was not protected and
\* is APPROACHING, WATCHING or BOX FORMING afterwards
C35_OneResult ==
    \A r \in Results :
        LET w2 == ApplyResult(wl, r, today)
        IN \A k \in 1..Len(w2) :
              /\ IsNew(wl, w2[k]) =>
                    /\ w2[k].status \in {"APPROACHING", "WATCHING"}
                    /\ w2[k].prev_status = w2[k].status
              /\ IsModified(wl, w2[k]) =>
                    /\ w2[k].status \in WrittenStatuses
                    /\ wl[RowOf(wl, w2[k].symbol)].status
                          \notin PROTECTED_STATUSES

\* a whole run, for the rows of the watchlist it leaves; a later result of
\* the same list may have updated or refreshed a row the run created
C35_OneRun ==
    \A k \in 1..Len(wl') :
        /\ IsNew(wl, wl'[k]) =>
              /\ wl'[k].status \in WrittenStatuses
              /\ wl'[k].prev_status \in {"APPROACHING", "WATCHING"}
        /\ IsModified(wl, wl'[k]) =>
              /\ wl'[k].status \in WrittenStatuses
              /\ wl[RowOf(wl, wl'[k].symbol)].status
                    \notin PROTECTED_STATUSES

\* C35: no row of the persisted watchlist is FRESH BREAKOUT; every row a
\* merge creates is APPROACHING or WATCHING, with prev_status equal to status
\* when it is created; every row a merge modifies is APPROACHING, WATCHING or
\* BOX FORMING afterwards and was not POSITION OPEN, POSITION CLOSED or MANUAL
C35_ScannerStatuses ==
    /\ [] (\A k \in 1..Len(wl) : wl[k].status # "FRESH BREAKOUT")
    /\ [] C35_OneResult
    /\ [][C35_OneRun]_vars

\* a run on the day after the file was written has refreshed the row of A to
\* BOX FORMING and created the row of B as APPROACHING
C35_Witness ==
    /\ runs >= 1 /\ today = 1
    /\ Len(wl) = 2
    /\ wl[1].symbol = "A"
    /\ wl[1].status = "BOX FORMING" /\ wl[1].date_updated = 1
    /\ wl[1].prev_status = "WATCHING"
    /\ wl[2].symbol = "B"
    /\ wl[2].status = "APPROACHING" /\ wl[2].prev_status = "APPROACHING"
    /\ wl[2].date_added = 1

(***************************************************************************)
(* analyse and build_order: the risk per share of an auto-order            *)
(***************************************************************************)

\* main, line 955, and place_basket, line 287: the result of analyse as
\* build_order reads it
AsHotResult(sym, r) ==
    [symbol       |-> sym,
     alert_tier   |-> r.alert_tier,
     box_ceiling  |-> r.box_ceiling,
     sl_price     |-> r.sl_price,
     mm_target    |-> r.mm_target,
     dist_to_ceil |-> r.dist_to_ceil]

\* analyse has returned a HOT result: main hands it to place_basket
IsHot == result # NoResult /\ result.alert_tier = "HOT"

\* the order place_basket builds for the result under main's order config
AutoOrder == build_order(AsHotResult("A", result), MainOrderConfig)

\* C32 as stated: the order built from a HOT result of a confirmed box has
\* its entry price strictly above its stop, so qty_by_risk never takes its
\* branch for a risk per share of zero or less
C32_RiskPerSharePositive ==
    IsHot => AutoOrder.entry_price - AutoOrder.sl_price > 0

(***************************************************************************)
(* place_single (place_order.py)                                           *)
(*                                                                         *)
(* The stock code handed to the broker comes from get_breeze_code; the     *)
(* model records the price and the quantity of the call instead.           *)
(***************************************************************************)

\* breeze_orders.py, lines 65-79, as place_single copies it (line 45)
ORDER_CONFIG == [risk_per_trade |-> 5000, max_orders_daily |-> 5]

\* the rows of the latest scan file place_single can find (lines 34-42), as
\* ceiling, stop and target: an entry of 1000.00 (a multiple of the tick), an
\* entry of 1000.40 and one of 100.30 (not multiples), a stop at the entry
SinglePrices ==
    { << 99701, 95000, 104701 >>, << 99741, 95000, 104741 >>,
      << 10000, 8955, 11000 >>, << 99701, 100000, 104701 >> }

\* the --qty argument
SingleQuantities == {1, 7, 50}

\* lines 46-54: the order of build_order with the quantity overridden and the
\* financials recalculated
single_order(r, cfg, qty) ==
    LET o      == build_order(r, cfg)
        risk   == (o.entry_price - o.sl_price) * qty
        reward == (o.target_price - o.entry_price) * qty
    IN [o EXCEPT !.quantity    = qty,
                 !.capital_inr = o.entry_price * qty,
                 !.risk_inr    = risk,
                 !.reward_inr  = reward,
                 !.rr          = IF risk > 0
                                 THEN RoundHalfEven(reward * 100, risk)
                                 ELSE 0]

\* lines 73-75: the price rounded up to a multiple of 0.50
round_tick(price) == ((price + 49) \div 50) * 50

\* lines 77-80
TickAdjusted(o) == [o EXCEPT !.entry_price = round_tick(o.entry_price)]

\* lines 98-109 and 121-123: the order after the broker has answered
SingleRecorded(o, response) ==
    CASE response = "success" ->
             [o EXCEPT !.order_id = "id", !.status = "PLACED"]
                 @@ [api_response |-> response]
      [] response = "error_response" ->
             [o EXCEPT !.status = "ERROR", !.error = "message"]
                 @@ [api_response |-> response]
      [] response = "exception" ->
             [o EXCEPT !.status = "ERROR", !.error = "message"]

\* place_single is about to be called (lines 140-144)
SingleInit ==
    /\ ob_pc = "idle"
    /\ \E sym \in Symbols, p \in SinglePrices :
          hot_results = << HotResult(sym, p, 3) >>
    /\ order_cfg = ORDER_CONFIG
    /\ dry_run \in BOOLEAN
    /\ single_qty \in SingleQuantities
    /\ orders = << >>
    /\ next_order = 1
    /\ connected = FALSE
    /\ sink_calls = << >>
    /\ order_log = << >>
    /\ wl = << >> /\ today = 0 /\ runs = 0 /\ scan_log = << >>
    /\ BoxIdle /\ ScanIdle /\ AddIdle /\ RunIdle

\* lines 44-60: build, override, preview
SingleBuild ==
    /\ ob_pc = "idle"
    /\ single_order(hot_results[1], order_cfg, single_qty).risk_inr # 0
    /\ orders' = << single_order(hot_results[1], order_cfg, single_qty) >>
    /\ ob_pc' = "built"
    /\ UNCHANGED << hot_results, order_cfg, dry_run, next_order,
                    connected, sink_calls, order_log, single_qty >>
    /\ UNCHANGED << boxvars, wlvars, scanvars, addvars, runvars >>

\* line 57, breeze_orders.py line 240: the preview divides by a risk of 0
SinglePreviewRaises ==
    /\ ob_pc = "idle"
    /\ single_order(hot_results[1], order_cfg, single_qty).risk_inr = 0
    /\ orders' = << single_order(hot_results[1], order_cfg, single_qty) >>
    /\ ob_pc' = "raised"
    /\ UNCHANGED << hot_results, order_cfg, dry_run, next_order,
                    connected, sink_calls, order_log, single_qty >>
    /\ UNCHANGED << boxvars, wlvars, scanvars, addvars, runvars >>

\* lines 62-64
SingleReturnDryRun ==
    /\ ob_pc = "built"
    /\ dry_run
    /\ order_log' = Append(order_log,
                           [tag |-> "SINGLE_DRYRUN", orders |-> orders])
    /\ ob_pc' = "returned"
    /\ UNCHANGED << hot_results, order_cfg, dry_run, orders, next_order,
                    connected, sink_calls, single_qty >>
    /\ UNCHANGED << boxvars, wlvars, scanvars, addvars, runvars >>

\* lines 77-83: the entry price is moved to the tick, then connect_breeze
\* returns a session
SingleConnect ==
    /\ ob_pc = "built"
    /\ ~ dry_run
    /\ orders' = << TickAdjusted(orders[1]) >>
    /\ connected' = TRUE
    /\ ob_pc' = "placing"
    /\ UNCHANGED << hot_results, order_cfg, dry_run, next_order,
                    sink_calls, order_log, single_qty >>
    /\ UNCHANGED << boxvars, wlvars, scanvars, addvars, runvars >>

\* lines 77-83: connect_breeze raises
SingleConnectRaises ==
    /\ ob_pc = "built"
    /\ ~ dry_run
    /\ orders' = << TickAdjusted(orders[1]) >>
    /\ ob_pc' = "raised"
    /\ UNCHANGED << hot_results, order_cfg, dry_run, next_order,
                    connected, sink_calls, order_log, single_qty >>
    /\ UNCHANGED << boxvars, wlvars, scanvars, addvars, runvars >>

\* lines 85-127: the order is handed to the broker, its outcome recorded and
\* the log written
SinglePlace ==
    /\ ob_pc = "placing"
    /\ \E response \in SinkResponses :
          /\ sink_calls' = Append(sink_calls,
                                  [price    |-> orders[1].entry_price,
                                   quantity |-> single_qty,
                                   response |-> response])
          /\ orders' = << SingleRecorded(orders[1], response) >>
          /\ order_log' = Append(order_log,
                                 [tag    |-> "SINGLE_LIVE",
                                  orders |-> << SingleRecorded(orders[1],
                                                               response) >>])
    /\ next_order' = 2
    /\ ob_pc' = "returned"
    /\ UNCHANGED << hot_results, order_cfg, dry_run, connected, single_qty >>
    /\ UNCHANGED << boxvars, wlvars, scanvars, addvars, runvars >>

place_single ==
    \/ SingleBuild
    \/ SinglePreviewRaises
    \/ SingleReturnDryRun
    \/ SingleConnect
    \/ SingleConnectRaises
    \/ SinglePlace

SpecSingle == SingleInit /\ [][place_single]_vars

\* C33 as stated: every order of every audit log has capital, risk and reward
\* equal to the products of its own recorded entry price and quantity
C33_LoggedFinancials ==
    \A k \in 1..Len(order_log) :
        \A j \in 1..Len(order_log[k].orders) :
            LET o == order_log[k].orders[j]
            IN /\ o.capital_inr = o.entry_price * o.quantity
               /\ o.risk_inr = (o.entry_price - o.sl_price) * o.quantity
               /\ o.reward_inr = (o.target_price - o.entry_price) * o.quantity

(***************************************************************************)
(* run_scan, run after run                                                 *)
(*                                                                         *)
(* One run at a time: each run loads the watchlist the run before it has   *)
(* saved, analyses its symbols, annotates and sorts the results, merges    *)
(* them and saves.                                                         *)
(***************************************************************************)

\* lines 745-757: the results of the symbols, in the order of all_symbols; f
\* gives what analyse returns for each symbol
RECURSIVE AnalyseAll(_, _)
AnalyseAll(syms, f) ==
    IF syms = << >> THEN << >>
    ELSE IF f[Head(syms)] = "skip" THEN AnalyseAll(Tail(syms), f)
    ELSE << RunResult(Head(syms), f[Head(syms)]) >>
             \o AnalyseAll(Tail(syms), f)

\* lines 762-769
ReportedFor(rs, w) == SortResults(annotate_status_changes(rs, w), 1, << >>)

\* what a run reported for the symbol: the status and the flag of its result,
\* and whether the watchlist the run loaded held the symbol
LogEntry(rs, w, sym) ==
    IF \E k \in 1..Len(rs) : rs[k].symbol = sym
    THEN LET r == rs[CHOOSE k \in 1..Len(rs) : rs[k].symbol = sym]
         IN [status |-> r.status, upgraded |-> r._upgraded,
             existed |-> Exists(w, sym)]
    ELSE [status |-> "", upgraded |-> FALSE, existed |-> Exists(w, sym)]

\* watchlist.csv before the first run: no row, or a row of A an earlier run
\* left as APPROACHING or WATCHING
ScanWatchlists ==
    { << >> }
    \cup { << [StoredRow("A", st, 0) EXCEPT !.prev_status = pv] >> :
              st \in {"APPROACHING", "WATCHING"},
              pv \in {"APPROACHING", "WATCHING"} }

ScansInit ==
    /\ wl \in ScanWatchlists
    /\ today = 0
    /\ runs = 0
    /\ scan_log = << >>
    /\ BoxIdle /\ ScanIdle /\ AddIdle /\ OrdersIdle /\ RunIdle

\* lines 716-861: one run of run_scan, from the load to the save
ScanRun ==
    /\ runs < MaxScans
    /\ \E f \in [Symbols -> RunOutcomes \cup {"skip"}] :
          LET rs == ReportedFor(AnalyseAll(all_symbols(wl), f), wl)
          IN /\ check_add_candidates(rs, wl).raised = ""
             /\ wl' = merge_into_watchlist(wl, rs, today)
             /\ scan_log' = Append(scan_log, LogEntry(rs, wl, "A"))
    /\ runs' = runs + 1
    /\ UNCHANGED today
    /\ UNCHANGED << boxvars, scanvars, addvars, ordvars, runvars >>

SpecScans == ScansInit /\ [][ScanRun]_vars

\* runs k-1 and k both updated the row of A, which was there before run k-1,
\* with an APPROACHING or WATCHING result
UpdatedTwice(k) ==
    /\ k >= 3 /\ k <= Len(scan_log)
    /\ scan_log[k - 2].status \in WrittenStatuses
    /\ scan_log[k - 1].existed
    /\ scan_log[k - 1].status \in {"APPROACHING", "WATCHING"}
    /\ scan_log[k].status \in {"APPROACHING", "WATCHING"}

\* C38: when runs k-1 and k both update the entry of a symbol with an
\* APPROACHING or WATCHING result, run k flags its result as upgraded exactly
\* when its status is more advanced than the status of run k-2, whatever the
\* status of run k-1 was; the entry run k-1 persisted carries the status of
\* run k-2 as prev_status
C38_ComparesWithRunBeforeLast ==
    /\ \A k \in 1..Len(scan_log) :
          UpdatedTwice(k) =>
              (scan_log[k].upgraded <=>
                  MoreAdvanced(scan_log[k].status, scan_log[k - 2].status))
    /\ (/\ Len(scan_log) >= 2
        /\ scan_log[Len(scan_log)].existed
        /\ scan_log[Len(scan_log)].status \in {"APPROACHING", "WATCHING"}
        /\ scan_log[Len(scan_log) - 1].status \in WrittenStatuses) =>
           /\ Exists(wl, "A")
           /\ wl[RowOf(wl, "A")].prev_status
                 = scan_log[Len(scan_log) - 1].status
           /\ wl[RowOf(wl, "A")].status = scan_log[Len(scan_log)].status

\* four runs reported APPROACHING, WATCHING, APPROACHING, APPROACHING: the
\* third, an improvement on the second, is not flagged; the fourth, no change
\* from the third, is flagged
C38_Witness ==
    /\ Len(scan_log) = 4
    /\ scan_log[1].status = "APPROACHING"
    /\ scan_log[2].status = "WATCHING" /\ scan_log[2].existed
    /\ scan_log[3].status = "APPROACHING" /\ ~ scan_log[3].upgraded
    /\ scan_log[4].status = "APPROACHING" /\ scan_log[4].upgraded
====
